---- MODULE Spec2Model ----
(***************************************************************************)
(* The OIDC authorization-code flow of the oidc plugin: the initiation     *)
(* route and handleCallback of createOIDCRouter, with the state cookie     *)
(* held by the client and the StateStore that issues and verifies it.      *)
(***************************************************************************)
EXTENDS Integers, Sequences, FiniteSets, TLC

VARIABLES
  env,      \* the router's configuration, fixed when createOIDCRouter runs
  rand,     \* number of random values drawn so far (crypto.randomBytes)
  flows,    \* the initiations served so far, in order
  expired,  \* the flows whose state token has outlived its TTL
  jar,      \* the state cookie held by the client's cookie jar
  scopes,   \* the scope list createOIDCRouter builds, shared by its routes
  cb,       \* the callback invocations, one record per invocation
  card,     \* BoardCardsStore: the card the store holds
  server,   \* the same card as the server holds it
  cardCalls, \* BoardCardsStore: the calls of move and updateCard, in order
  now,      \* the time, read by `new Date()` and by the server
  boards,   \* the rows of the boards, board_columns and events tables
  reqs      \* the boards.enable requests, each in its own transaction

oidcVars == <<env, rand, flows, expired, jar, scopes, cb>>
cardVars == <<card, server, cardCalls, now>>
boardVars == <<boards, reqs>>
vars == <<oidcVars, cardVars, boardVars>>

----------------------------------------------------------------------------
(* Bounds *)

MaxFlows == 2

Callbacks == {1, 2}

----------------------------------------------------------------------------
(* Values *)

None == "undefined"

Web == "web"
Desktop == "desktop"
Clients == {Web, Desktop}

\* ctx.hostname of the requests, and a host an attacker may write into a cookie
RequestHost == "app.example"
ForeignHost == "evil.example"

\* `typeof value === "string" && value.trim() ? value : undefined`
Trim(value) ==
  CASE value = " " -> ""
    [] value = " t1 " -> "t1"
    [] value = "email\t" -> "email"
    [] OTHER -> value

parseString(value) ==
  IF value # None /\ Trim(value) # "" THEN value ELSE None

\* toBase64Url(crypto.randomBytes(32)): a fresh value on every call
generateCodeVerifier(n) == "v" \o ToString(n)

\* toBase64Url(sha256(verifier))
generateCodeChallenge(verifier) == "S256:" \o verifier

----------------------------------------------------------------------------
(* The state cookie *)

\* The signature over a payload under the server-held secret.
Sign(token, codeVerifier, host, client, iss) ==
  "hmac(" \o token \o "|" \o codeVerifier \o "|" \o host \o "|" \o client
          \o "|" \o ToString(iss) \o ")"

NoCookie ==
  [present |-> FALSE, token |-> None, codeVerifier |-> None, host |-> None,
   client |-> None, iss |-> 0, sig |-> None]

buildState(host, token, client, codeVerifier, iss) ==
  [present |-> TRUE, token |-> token, codeVerifier |-> codeVerifier,
   host |-> host, client |-> client, iss |-> iss,
   sig |-> Sign(token, codeVerifier, host, client, iss)]

\* parseState reads the payload of a cookie; it does not check the signature.
parseState(cookie) ==
  [host |-> cookie.host, token |-> cookie.token, client |-> cookie.client,
   codeVerifier |-> cookie.codeVerifier]

SigValid(cookie) ==
  cookie.sig = Sign(cookie.token, cookie.codeVerifier, cookie.host,
                    cookie.client, cookie.iss)

\* As StateStoreVerify, clearing the cookie only when the verification succeeds
StateStoreVerifyClearingOnSuccess(cookie, providedToken, expiredNow) ==
  LET ok == /\ cookie.present
            /\ SigValid(cookie)
            /\ cookie.iss \notin expiredNow
            /\ cookie.token = providedToken
  IN  [err |-> IF ok THEN None ELSE "OAuthStateMismatchError",
       clearCookie |-> ok]

\* StateStore.verify: the error it hands to its callback (None on success);
\* it clears the state cookie on the response whatever the outcome.
StateStoreVerify(cookie, providedToken, expiredNow) ==
  [err |-> IF /\ cookie.present
              /\ SigValid(cookie)
              /\ cookie.iss \notin expiredNow
              /\ cookie.token = providedToken
           THEN None
           ELSE "OAuthStateMismatchError",
   clearCookie |-> TRUE]

\* What a client that rewrites its cookie can present: the payload changed,
\* the signature left as issued.
Tampered(cookie) ==
  { [cookie EXCEPT !.host = ForeignHost, !.client = Desktop],
    [cookie EXCEPT !.codeVerifier = "v-attacker"],
    [cookie EXCEPT !.host = "bad host"] }

IssuedCookies == { flows[f].cookie : f \in 1..Len(flows) }

----------------------------------------------------------------------------
(* What the provider and the collaborators may answer *)

Codes == {None, "abc123"}
Errors == {None, "access_denied"}

\* What `await fetch(tokenURL, ...)` gives: a response, or (thrown) no response
\* at all because the request timed out or the transport failed
TokenResponse(ok, at, rt, idt, scope) ==
  [thrown |-> FALSE, ok |-> ok, access_token |-> at, refresh_token |-> rt,
   id_token |-> idt, scope |-> scope]

FetchThrows == [TokenResponse(FALSE, None, None, None, None)
                  EXCEPT !.thrown = TRUE]

TokenResponses ==
  { TokenResponse(TRUE, "t1", "rt1", "jwt1", None),
    TokenResponse(TRUE, "t1", None, None, "openid email"),
    TokenResponse(TRUE, None, "rt1", "jwt1", "openid email"),
    TokenResponse(TRUE, "", "rt1", "jwt1", None),
    TokenResponse(TRUE, " ", "rt1", None, None),
    TokenResponse(FALSE, "t1", "rt1", "jwt1", "openid email"),
    FetchThrows }

Claims(email, name, username, sub, picture) ==
  [email |-> email, name |-> name, preferred_username |-> username,
   nickname |-> None, sub |-> sub, id |-> None, picture |-> picture,
   avatar_url |-> None, locale |-> None]

NoClaims == Claims(None, None, None, None, None)

\* jwt.decode of the id_token: its payload, undecodable or absent tokens give
\* no claims.
decodeIdToken(raw) ==
  IF raw = "jwt1" THEN Claims("a@example.com", None, None, "sub1", None)
  ELSE IF raw = "jwt2"
  THEN [Claims("a@example.com", None, None, "sub1", None)
          EXCEPT !.locale = "zh-TW"]
  ELSE IF raw = "jwt3"
  THEN [Claims("a@example.com", "Tok Name", "tok", "sub1", None)
          EXCEPT !.nickname = "tokky"]
  ELSE NoClaims

UserInfoResponse(ok, claims) ==
  [thrown |-> FALSE, ok |-> ok, claims |-> claims]

UserInfoThrows == [UserInfoResponse(FALSE, NoClaims) EXCEPT !.thrown = TRUE]

NoUserInfo == UserInfoResponse(FALSE, NoClaims)

UserInfoResponses ==
  { UserInfoResponse(TRUE, Claims("a@example.com", "Alice", None, "sub1", None)),
    UserInfoResponse(TRUE, Claims(None, "Alice", "alice", None, None)),
    UserInfoResponse(TRUE, Claims("a@example.com", None, None, "sub1", None)),
    UserInfoResponse(TRUE, Claims("a@example.com", "Alice", None, "sub1",
                                  "data:image/png;base64,AAAA")),
    UserInfoResponse(TRUE, [Claims("a@example.com", "Alice", None, None, None)
                              EXCEPT !.id = "u42"]),
    UserInfoResponse(TRUE, [Claims("a@example.com", "Alice", None, "sub1", None)
                              EXCEPT !.avatar_url =
                                       "data:image/png;base64,AAAA"]),
    UserInfoResponse(TRUE, Claims("alice", "Alice", None, "sub1", None)),
    UserInfoResponse(FALSE, Claims("a@example.com", "Alice", None, "sub1",
                                   None)),
    UserInfoThrows }

\* isBase64Url
isBase64Url(url) == url = "data:image/png;base64,AAAA"

\* The profile the enrichment service (Passport) holds for a user
PassportProfile(id, email, nickname, avatar_url) ==
  [present |-> TRUE, id |-> id, email |-> email, nickname |-> nickname,
   avatar_url |-> avatar_url, preferred_language |-> None]

NoPassportProfile ==
  [present |-> FALSE, id |-> None, email |-> None, nickname |-> None,
   avatar_url |-> None, preferred_language |-> None]

PassportProfiles ==
  { PassportProfile("p1", "a@example.com", "Ally", "https://cdn.example/a.png"),
    PassportProfile("p1", "a@example.com", None, "https://cdn.example/a.png"),
    PassportProfile("p1", "a@example.com", "", "https://cdn.example/a.png"),
    PassportProfile("p1", "a@example.com", " ", "https://cdn.example/a.png"),
    PassportProfile("p1", "a@example.com", "Ally",
                    "data:image/png;base64,AAAA"),
    PassportProfile("p1", "a@example.com", "Ally", None),
    PassportProfile("p1", None, "Ally", "https://cdn.example/a.png") }

\* How one call to the enrichment service ends: a success response ("ok"), a
\* success response without the expected field ("empty"), a non-success status
\* ("status"), or no response at all ("thrown")
CallResults == {"ok", "empty", "status", "thrown"}

\* The profile-by-email lookup: whether PASSPORT_API_BASE_URL and
\* PASSPORT_API_TOKEN are set, how the call ends, and the profile found
EmailLookup(configured, result, profile) ==
  [configured |-> configured, result |-> result, profile |-> profile]

EmailLookups ==
  { EmailLookup(TRUE, "ok", q) : q \in PassportProfiles }
    \cup { EmailLookup(TRUE, x, NoPassportProfile) :
             x \in {"empty", "status", "thrown"} }
    \cup { EmailLookup(FALSE, "ok", NoPassportProfile) }

\* The consent exchange: whether it is configured, how the consent request,
\* the decision and the token call end, and the user the token call returns
ConsentExchange(configured, request, decision, token, user) ==
  [configured |-> configured, request |-> request, decision |-> decision,
   token |-> token, user |-> user]

ConsentExchanges ==
  { ConsentExchange(TRUE, "ok", "ok", "ok", q) : q \in PassportProfiles }
    \cup { ConsentExchange(TRUE, x, "ok", "ok", NoPassportProfile) :
             x \in CallResults \ {"ok"} }
    \cup { ConsentExchange(TRUE, "ok", x, "ok", NoPassportProfile) :
             x \in CallResults \ {"ok"} }
    \cup { ConsentExchange(TRUE, "ok", "ok", x, NoPassportProfile) :
             x \in CallResults \ {"ok"} }
    \cup { ConsentExchange(FALSE, "ok", "ok", "ok", NoPassportProfile) }

\* accountProvisioner either returns a result or throws an error of its own
ProvisionOutcomes ==
  {None, "ProvisioningError", "ProvisioningErrorWithPath"}

\* The request of the callback (ctx.protocol, ctx.hostname) and env.URL
RequestProtocol == "https"
EnvUrlProtocol == "https"
EnvUrlHost == "wiki.example"

\* The `id` an error carries; an error thrown by fetch is a plain Error and
\* carries none
ErrorId(e) ==
  CASE e = "AuthenticationError" -> "authentication_error"
    [] e = "OAuthStateMismatchError" -> "state_mismatch"
    [] e = "OIDCMalformedUserInfoError" -> "malformed_user_info"
    [] e \in {"ProvisioningError", "ProvisioningErrorWithPath"} ->
         "provisioning_error"
    [] OTHER -> None

\* The redirectPath an error carries, if any
ErrorRedirectPath(e) ==
  IF e = "ProvisioningErrorWithPath" THEN "/welcome?from=oidc" ELSE None

\* The host an error carries, if any
ErrorRedirectHost(e) ==
  IF e = "ProvisioningErrorWithPath" THEN "tenant.example" ELSE None

\* String(err.id).replace(/_/g, "-")
Notice(id) ==
  CASE id = "authentication_error" -> "authentication-error"
    [] id = "state_mismatch" -> "state-mismatch"
    [] id = "malformed_user_info" -> "malformed-user-info"
    [] id = "provisioning_error" -> "provisioning-error"
    [] OTHER -> id

\* Whether `new URL(protocol://host/path)` accepts the host
ValidUrlHost(host) == host \notin {"", "bad host"}

\* redirectPath.includes("?")
HasQueryString(redirectPath) == redirectPath = "/welcome?from=oidc"

----------------------------------------------------------------------------
(* A callback invocation *)

NoTokens ==
  [accessToken |-> None, refreshToken |-> None, scope |-> None,
   idToken |-> None]

NoResponse == TokenResponse(FALSE, None, None, None, None)

NoBody == [sent |-> FALSE, code |-> None, code_verifier |-> None]

NoIdentity ==
  [email |-> None, name |-> None, avatarUrl |-> None, authProviderId |-> None]

NoProvision ==
  [called |-> FALSE, email |-> None, name |-> None, avatarUrl |-> None,
   authProviderId |-> None, accessToken |-> None, refreshToken |-> None,
   teamId |-> None, providerId |-> None, language |-> None,
   scopes |-> << >>]

\* What the callback answers: nothing yet ("none"), a redirect, or the raw
\* error rethrown to the framework ("throw")
NoRedirect ==
  [kind |-> "none", scheme |-> None, host |-> None, path |-> None,
   sep |-> None, notice |-> None]

\* A record handed to Logger: where it is written, its level, and the string
\* values of what is attached to it
LogRecord(at, level, attached) ==
  [at |-> at, level |-> level, attached |-> attached]

\* `await response.text()` of the token endpoint's answer: what the body holds
TokenBodyValues(response) ==
  {response.access_token, response.refresh_token, response.id_token,
   response.scope} \ {None}

\* The values of a claim bag or of the body of a user-info answer
ClaimValues(claims) ==
  {claims.email, claims.name, claims.preferred_username, claims.nickname,
   claims.sub, claims.id, claims.picture, claims.avatar_url, claims.locale}
    \ {None}

\* The values of an enrichment profile
PassportProfileValues(profile) ==
  {profile.id, profile.email, profile.nickname, profile.avatar_url,
   profile.preferred_language} \ {None}

\* Logger.error / Logger.warn in the course of callback r
Logged(r, at, level, attached) ==
  [r EXCEPT !.log = Append(@, LogRecord(at, level, attached))]

IdleCb ==
  [pc |-> "idle", code |-> None, state |-> None, error |-> None,
   cookie |-> NoCookie, fromJar |-> FALSE, after |-> {},
   calls |-> << >>, clearCookie |-> FALSE, err |-> None,
   body |-> NoBody, response |-> NoResponse, tokens |-> NoTokens,
   userInfoResponse |-> NoUserInfo, variant |-> None,
   enrichment |-> NoPassportProfile, enrichmentResults |-> << >>,
   identity |-> NoIdentity,
   provision |-> NoProvision, session |-> FALSE, redirect |-> NoRedirect,
   log |-> << >>, connected |-> TRUE, responded |-> FALSE,
   requestClient |-> Web, client |-> None]

\* As Catch, redirecting to "/" whatever path the error carries
CatchIgnoringRedirectPath(r, e) ==
  LET parsedState == parseState(r.cookie)
      redirectPath == "/"
      reqProtocol == IF r.cookie.present /\ parsedState.client = Desktop
                     THEN "outline" ELSE RequestProtocol
      requestHost == IF e = "OAuthStateMismatchError" THEN RequestHost
                     ELSE IF r.cookie.present /\ parsedState.host # None
                     THEN parsedState.host ELSE RequestHost
      failed == [Logged(r, "handleCallback", "error", {})
                   EXCEPT !.pc = "Failed", !.err = e]
  IN  IF ErrorId(e) # None /\ env.isCloudHosted /\ ~ValidUrlHost(requestHost)
      THEN [failed EXCEPT !.redirect = [NoRedirect EXCEPT !.kind = "throw"]]
      ELSE IF ErrorId(e) # None
      THEN [failed EXCEPT !.redirect =
              [kind |-> "redirect",
               scheme |-> IF env.isCloudHosted THEN reqProtocol
                          ELSE EnvUrlProtocol,
               host |-> IF env.isCloudHosted THEN requestHost ELSE EnvUrlHost,
               path |-> redirectPath,
               sep |-> IF HasQueryString(redirectPath) THEN "&" ELSE "?",
               notice |-> Notice(ErrorId(e))]]
      ELSE IF env.isDevelopment
      THEN [failed EXCEPT !.redirect = [NoRedirect EXCEPT !.kind = "throw"]]
      ELSE [failed EXCEPT !.redirect =
              [kind |-> "redirect", scheme |-> None, host |-> None,
               path |-> "/", sep |-> "?", notice |-> "auth-error"]]

\* The catch block of handleCallback: the invocation ends in Failed, with a
\* redirect that carries a notice or, in development, with the error rethrown.
\* `new URL(...)` throws a TypeError out of the catch block when the host it is
\* given is not one a URL can have.
Catch(r, e) ==
  LET parsedState == parseState(r.cookie)
      redirectPath == IF ErrorRedirectPath(e) # None
                      THEN ErrorRedirectPath(e) ELSE "/"
      reqProtocol == IF r.cookie.present /\ parsedState.client = Desktop
                     THEN "outline" ELSE RequestProtocol
      requestHost == IF e = "OAuthStateMismatchError" THEN RequestHost
                     ELSE IF r.cookie.present /\ parsedState.host # None
                     THEN parsedState.host ELSE RequestHost
      failed == [Logged(r, "handleCallback", "error", {})
                   EXCEPT !.pc = "Failed", !.err = e]
  IN  IF ErrorId(e) # None /\ env.isCloudHosted /\ ~ValidUrlHost(requestHost)
      THEN [failed EXCEPT !.redirect = [NoRedirect EXCEPT !.kind = "throw"]]
      ELSE IF ErrorId(e) # None
      THEN [failed EXCEPT !.redirect =
              [kind |-> "redirect",
               scheme |-> IF env.isCloudHosted THEN reqProtocol
                          ELSE EnvUrlProtocol,
               host |-> IF env.isCloudHosted THEN requestHost ELSE EnvUrlHost,
               path |-> redirectPath,
               sep |-> IF HasQueryString(redirectPath) THEN "&" ELSE "?",
               notice |-> Notice(ErrorId(e))]]
      ELSE IF env.isDevelopment
      THEN [failed EXCEPT !.redirect = [NoRedirect EXCEPT !.kind = "throw"]]
      ELSE [failed EXCEPT !.redirect =
              [kind |-> "redirect", scheme |-> None, host |-> None,
               path |-> "/", sep |-> "?", notice |-> "auth-error"]]

\* As VerifyStep, verifying the state before looking at `error` and `code`
VerifyStepVerifyingFirst(r, expiredNow) ==
  LET v == StateStoreVerify(r.cookie,
                            IF r.state = None THEN "" ELSE r.state,
                            expiredNow)
      r1 == [r EXCEPT !.calls = Append(@, "verify"),
                      !.clearCookie = v.clearCookie]
  IN  IF v.err # None
      THEN Catch(r1, v.err)
      ELSE IF r.error # None /\ r.error # ""
      THEN Catch(r1, "AuthenticationError")
      ELSE IF r.code = None \/ r.code = ""
      THEN Catch(r1, "AuthenticationError")
      ELSE [r1 EXCEPT !.pc = "StateVerified"]

\* As VerifyStep, resolving the promise whatever stateStore.verify reports
VerifyStepIgnoringResult(r, expiredNow) ==
  IF r.error # None /\ r.error # ""
  THEN Catch(r, "AuthenticationError")
  ELSE IF r.code = None \/ r.code = ""
  THEN Catch(r, "AuthenticationError")
  ELSE LET v == StateStoreVerify(r.cookie,
                                 IF r.state = None THEN "" ELSE r.state,
                                 expiredNow)
       IN  [r EXCEPT !.calls = Append(@, "verify"),
                     !.clearCookie = v.clearCookie, !.pc = "StateVerified"]

\* As VerifyStep, handing stateStore.verify the token parsed from the cookie
\* instead of the returned state parameter
VerifyStepComparingCookieToItself(r, expiredNow) ==
  IF r.error # None /\ r.error # ""
  THEN Catch(r, "AuthenticationError")
  ELSE IF r.code = None \/ r.code = ""
  THEN Catch(r, "AuthenticationError")
  ELSE LET v == StateStoreVerify(r.cookie, parseState(r.cookie).token,
                                 expiredNow)
           r1 == [r EXCEPT !.calls = Append(@, "verify"),
                           !.clearCookie = v.clearCookie]
       IN  IF v.err # None
           THEN Catch(r1, v.err)
           ELSE [r1 EXCEPT !.pc = "StateVerified"]

\* `if (error) throw ...; if (!code) throw ...; await stateStore.verify(...)`
VerifyStep(r, expiredNow) ==
  IF r.error # None /\ r.error # ""
  THEN Catch(r, "AuthenticationError")
  ELSE IF r.code = None \/ r.code = ""
  THEN Catch(r, "AuthenticationError")
  ELSE LET v == StateStoreVerify(r.cookie,
                                 IF r.state = None THEN "" ELSE r.state,
                                 expiredNow)
           r1 == [r EXCEPT !.calls = Append(@, "verify"),
                           !.clearCookie = v.clearCookie]
       IN  IF v.err # None
           THEN Catch(r1, v.err)
           ELSE [r1 EXCEPT !.pc = "StateVerified"]

\* As TokenRequestBody, setting code_verifier unconditionally
TokenRequestBodyAlwaysVerifier(code, codeVerifier) ==
  [sent |-> TRUE, code |-> code,
   code_verifier |-> IF codeVerifier # None THEN codeVerifier ELSE ""]

\* The request body of the token exchange: `if (codeVerifier) body.set(...)`
TokenRequestBody(code, codeVerifier) ==
  [sent |-> TRUE, code |-> code,
   code_verifier |-> IF codeVerifier # None /\ codeVerifier # ""
                     THEN codeVerifier ELSE None]

\* As exchangeAuthorizationCode, without the `!response.ok` check
exchangeAuthorizationCodeIgnoringStatus(code, codeVerifier, response) ==
  LET body == TokenRequestBody(code, codeVerifier)
      accessToken == parseString(response.access_token)
  IN  IF ~env.credentialsConfigured
      THEN [body |-> NoBody, err |-> "AuthenticationError",
            tokens |-> NoTokens, log |-> << >>]
      ELSE IF response.thrown
      THEN [body |-> body, err |-> "FetchError", tokens |-> NoTokens,
            log |-> << >>]
      ELSE IF accessToken = None
      THEN [body |-> body, err |-> "AuthenticationError", tokens |-> NoTokens,
            log |-> << >>]
      ELSE [body |-> body, err |-> None, log |-> << >>,
            tokens |-> [accessToken |-> accessToken,
                        refreshToken |-> parseString(response.refresh_token),
                        scope |-> parseString(response.scope),
                        idToken |-> parseString(response.id_token)]]

\* exchangeAuthorizationCode, given the token endpoint's response; without
\* OIDC_CLIENT_ID or OIDC_CLIENT_SECRET it throws before any request
exchangeAuthorizationCode(code, codeVerifier, response) ==
  LET body == TokenRequestBody(code, codeVerifier)
      accessToken == parseString(response.access_token)
  IN  IF ~env.credentialsConfigured
      THEN [body |-> NoBody, err |-> "AuthenticationError",
            tokens |-> NoTokens, log |-> << >>]
      ELSE IF response.thrown
      THEN [body |-> body, err |-> "FetchError", tokens |-> NoTokens,
            log |-> << >>]
      ELSE IF ~response.ok
      THEN [body |-> body, err |-> "AuthenticationError", tokens |-> NoTokens,
            log |-> <<LogRecord("exchangeAuthorizationCode", "error",
                                TokenBodyValues(response))>>]
      ELSE IF accessToken = None
      THEN [body |-> body, err |-> "AuthenticationError", tokens |-> NoTokens,
            log |-> << >>]
      ELSE [body |-> body, err |-> None, log |-> << >>,
            tokens |-> [accessToken |-> accessToken,
                        refreshToken |-> parseString(response.refresh_token),
                        scope |-> parseString(response.scope),
                        idToken |-> parseString(response.id_token)]]

\* As CallbackCodeVerifier, generating a verifier anew in the callback
RegeneratedCodeVerifier(r) ==
  IF r.cookie.present /\ parseState(r.cookie).codeVerifier # None
  THEN generateCodeVerifier(0) ELSE None

\* The verifier handleCallback hands to the exchange: parsedState?.codeVerifier
CallbackCodeVerifier(r) ==
  IF r.cookie.present THEN parseState(r.cookie).codeVerifier ELSE None

\* As ExchangeStep, swallowing the error of a failed exchange
ExchangeStepSwallowingError(r, response) ==
  LET x == exchangeAuthorizationCode(r.code, CallbackCodeVerifier(r),
                                     response)
  IN  [r EXCEPT !.calls = Append(@, "exchangeAuthorizationCode"),
                !.body = x.body, !.response = response,
                !.log = @ \o x.log, !.err = x.err,
                !.pc = "TokenExchanged", !.tokens = x.tokens]

\* As ExchangeStep, leaving the callback where it was after a failed exchange,
\* so that the exchange is attempted again
ExchangeStepRetrying(r, response) ==
  LET x == exchangeAuthorizationCode(r.code, CallbackCodeVerifier(r),
                                     response)
      r1 == [r EXCEPT !.calls = Append(@, "exchangeAuthorizationCode"),
                      !.body = x.body, !.response = response,
                      !.log = @ \o x.log]
  IN  IF x.err # None
      THEN [r1 EXCEPT !.err = x.err]
      ELSE [r1 EXCEPT !.pc = "TokenExchanged", !.tokens = x.tokens]

\* `const {accessToken, ...} = await exchangeAuthorizationCode({...})`
ExchangeStep(r, response) ==
  LET x == exchangeAuthorizationCode(r.code, CallbackCodeVerifier(r),
                                     response)
      r1 == [r EXCEPT !.calls = Append(@, "exchangeAuthorizationCode"),
                      !.body = x.body, !.response = response,
                      !.log = @ \o x.log]
  IN  IF x.err # None
      THEN Catch(r1, x.err)
      ELSE [r1 EXCEPT !.pc = "TokenExchanged", !.tokens = x.tokens]

\* a ?? b
Coalesce(a, b) == IF a # None THEN a ELSE b

\* !value, for a string or undefined
Falsy(value) == value = None \/ value = ""

\* As AvatarInvalid, accepting every avatar
AvatarInvalidNever(avatarUrl) == FALSE

\* `avatarUrl && isBase64Url(avatarUrl)`
AvatarInvalid(avatarUrl) == ~Falsy(avatarUrl) /\ isBase64Url(avatarUrl)

\* parseEmail: the domain of an address, none when it has no domain part
parseEmail(email) ==
  [domain |-> CASE email = "a@example.com" -> "example.com"
                [] email = "b@other.example" -> "other.example"
                [] OTHER -> None]

\* lodash `get(claims, path)` for the paths a deployment configures
Get(claims, path) ==
  CASE path = "preferred_username" -> claims.preferred_username
    [] path = "name" -> claims.name
    [] path = "nickname" -> claims.nickname
    [] path = "email" -> claims.email
    [] OTHER -> None

\* `env.OIDC_USERNAME_CLAIM || "preferred_username"`
UsernameClaim ==
  IF Falsy(env.usernameClaim) THEN "preferred_username" ELSE env.usernameClaim

\* As DisplayName, trying the conventional fields before the configured claim
DisplayNameConventionalFirst(userInfo, idTokenClaims) ==
  Coalesce(parseString(userInfo.name),
  Coalesce(parseString(userInfo.preferred_username),
  Coalesce(parseString(userInfo.nickname),
  Coalesce(parseString(Get(userInfo, UsernameClaim)),
           parseString(Get(idTokenClaims, UsernameClaim))))))

\* The display name: the configured claim of user-info, then of the id token,
\* then name, preferred_username and nickname of user-info
DisplayName(userInfo, idTokenClaims) ==
  Coalesce(parseString(Get(userInfo, UsernameClaim)),
  Coalesce(parseString(Get(idTokenClaims, UsernameClaim)),
  Coalesce(parseString(userInfo.name),
  Coalesce(parseString(userInfo.preferred_username),
           parseString(userInfo.nickname)))))

\* As ResolveStep, without the check that a name was resolved
ResolveStepAllowingMissingName(r, userInfoResponse) ==
  LET r1 == [r EXCEPT !.calls = Append(@, "fetchOIDCUserInfo"),
                      !.userInfoResponse = userInfoResponse,
                      !.variant = "fetch"]
      userInfo == userInfoResponse.claims
      idTokenClaims == decodeIdToken(r.tokens.idToken)
      email == Coalesce(parseString(userInfo.email),
                        parseString(idTokenClaims.email))
      name == DisplayName(userInfo, idTokenClaims)
      avatarUrl == Coalesce(parseString(userInfo.picture),
                   Coalesce(parseString(userInfo.avatar_url),
                            parseString(idTokenClaims.picture)))
      authProviderId ==
        Coalesce(parseString(userInfo.sub),
        Coalesce(parseString(idTokenClaims.sub), email))
  IN  IF userInfoResponse.thrown THEN Catch(r1, "FetchError")
      ELSE IF ~userInfoResponse.ok
      THEN Catch(Logged(r1, "fetchOIDCUserInfo", "error",
                        ClaimValues(userInfo)), "AuthenticationError")
      ELSE IF email = None THEN Catch(r1, "AuthenticationError")
      ELSE IF parseEmail(email).domain = None
      THEN Catch(r1, "OIDCMalformedUserInfoError")
      ELSE IF AvatarInvalid(avatarUrl)
      THEN Catch(Logged(r1, "failWithProfileError", "error",
                        {email} \cup ClaimValues(userInfo)),
                 "AuthenticationError")
      ELSE [r1 EXCEPT !.pc = "ClaimsResolved",
                      !.identity = [email |-> email, name |-> name,
                                    avatarUrl |-> avatarUrl,
                                    authProviderId |-> authProviderId]]

\* As ResolveStep, reading the body of the user-info response whatever its
\* status
ResolveStepIgnoringStatus(r, userInfoResponse) ==
  LET r1 == [r EXCEPT !.calls = Append(@, "fetchOIDCUserInfo"),
                      !.userInfoResponse = userInfoResponse,
                      !.variant = "fetch"]
      userInfo == userInfoResponse.claims
      idTokenClaims == decodeIdToken(r.tokens.idToken)
      email == Coalesce(parseString(userInfo.email),
                        parseString(idTokenClaims.email))
      name == DisplayName(userInfo, idTokenClaims)
      avatarUrl == Coalesce(parseString(userInfo.picture),
                   Coalesce(parseString(userInfo.avatar_url),
                            parseString(idTokenClaims.picture)))
      authProviderId ==
        Coalesce(parseString(userInfo.sub),
        Coalesce(parseString(idTokenClaims.sub), email))
  IN  IF userInfoResponse.thrown THEN Catch(r1, "FetchError")
      ELSE IF email = None THEN Catch(r1, "AuthenticationError")
      ELSE IF parseEmail(email).domain = None
      THEN Catch(r1, "OIDCMalformedUserInfoError")
      ELSE IF name = None
      THEN Catch(Logged(r1, "failWithProfileError", "error",
                        {email} \cup ClaimValues(userInfo)),
                 "AuthenticationError")
      ELSE IF AvatarInvalid(avatarUrl)
      THEN Catch(Logged(r1, "failWithProfileError", "error",
                        {email} \cup ClaimValues(userInfo)),
                 "AuthenticationError")
      ELSE [r1 EXCEPT !.pc = "ClaimsResolved",
                      !.identity = [email |-> email, name |-> name,
                                    avatarUrl |-> avatarUrl,
                                    authProviderId |-> authProviderId]]

\* fetchOIDCUserInfo and the resolution of email, name, avatar and subject
ResolveStep(r, userInfoResponse) ==
  LET r1 == [r EXCEPT !.calls = Append(@, "fetchOIDCUserInfo"),
                      !.userInfoResponse = userInfoResponse,
                      !.variant = "fetch"]
      userInfo == userInfoResponse.claims
      idTokenClaims == decodeIdToken(r.tokens.idToken)
      email == Coalesce(parseString(userInfo.email),
                        parseString(idTokenClaims.email))
      name == DisplayName(userInfo, idTokenClaims)
      avatarUrl == Coalesce(parseString(userInfo.picture),
                   Coalesce(parseString(userInfo.avatar_url),
                            parseString(idTokenClaims.picture)))
      authProviderId ==
        Coalesce(parseString(userInfo.sub),
        Coalesce(parseString(idTokenClaims.sub), email))
  IN  IF userInfoResponse.thrown THEN Catch(r1, "FetchError")
      ELSE IF ~userInfoResponse.ok
      THEN Catch(Logged(r1, "fetchOIDCUserInfo", "error",
                        ClaimValues(userInfo)), "AuthenticationError")
      ELSE IF email = None THEN Catch(r1, "AuthenticationError")
      ELSE IF parseEmail(email).domain = None
      THEN Catch(r1, "OIDCMalformedUserInfoError")
      ELSE IF name = None
      THEN Catch(Logged(r1, "failWithProfileError", "error",
                        {email} \cup ClaimValues(userInfo)),
                 "AuthenticationError")
      ELSE IF AvatarInvalid(avatarUrl)
      THEN Catch(Logged(r1, "failWithProfileError", "error",
                        {email} \cup ClaimValues(userInfo)),
                 "AuthenticationError")
      ELSE [r1 EXCEPT !.pc = "ClaimsResolved",
                      !.identity = [email |-> email, name |-> name,
                                    avatarUrl |-> avatarUrl,
                                    authProviderId |-> authProviderId]]

----------------------------------------------------------------------------
(* The verify callbacks of the routers that enrich the profile *)

\* `done(err, null)`: the callback fails with the error, which is not logged
\* again
PassportDone(r, e) == [Catch(r, e) EXCEPT !.log = r.log]

\* `request(method, endpoints.userInfoURL, accessToken)`
PassportRequest(userInfoResponse) ==
  IF userInfoResponse.thrown
  THEN [err |-> "FetchError", profile |-> NoClaims]
  ELSE IF ~userInfoResponse.ok
  THEN [err |-> "AuthenticationError", profile |-> NoClaims]
  ELSE [err |-> None, profile |-> userInfoResponse.claims]

\* fetchPassportProfile(email): the profile found, none in every other case;
\* `results` is how each call made to the service ended
fetchPassportProfileByEmail(email, lookup) ==
  IF ~lookup.configured
  THEN [calls |-> << >>, results |-> << >>, log |-> << >>,
        profile |-> NoPassportProfile]
  ELSE IF lookup.result = "ok" /\ lookup.profile.present
  THEN [calls |-> <<"profileByEmail">>, results |-> <<"ok">>, log |-> << >>,
        profile |-> lookup.profile]
  ELSE [calls |-> <<"profileByEmail">>,
        results |-> <<IF lookup.result = "ok" THEN "empty"
                      ELSE lookup.result>>,
        log |-> CASE lookup.result = "status" ->
                       <<LogRecord("fetchPassportProfile", "warn", {email})>>
                  [] lookup.result = "thrown" ->
                       <<LogRecord("fetchPassportProfile", "error", {email})>>
                  [] OTHER -> << >>,
        profile |-> NoPassportProfile]

\* The error of a consent call that did not give what was expected
ConsentError(result) ==
  IF result = "thrown" THEN "FetchError" ELSE "AuthenticationError"

\* What a consent call logs: its status and body when the status is not a
\* success (the content of these bodies is not modelled)
ConsentLog(result) ==
  IF result = "status"
  THEN <<LogRecord("fetchPassportProfile", "error", {})>>
  ELSE << >>

\* fetchPassportProfile(accessToken): consent request, decision, token;
\* `results` is how each call made to the service ended
fetchPassportProfileByConsent(consent) ==
  IF ~consent.configured
  THEN [calls |-> << >>, results |-> << >>, log |-> << >>,
        err |-> "AuthenticationError", user |-> NoPassportProfile]
  ELSE IF consent.request # "ok"
  THEN [calls |-> <<"consentRequest">>, results |-> <<consent.request>>,
        log |-> ConsentLog(consent.request),
        err |-> ConsentError(consent.request), user |-> NoPassportProfile]
  ELSE IF consent.decision # "ok"
  THEN [calls |-> <<"consentRequest", "consentDecision">>,
        results |-> <<"ok", consent.decision>>,
        log |-> ConsentLog(consent.decision),
        err |-> ConsentError(consent.decision), user |-> NoPassportProfile]
  ELSE IF consent.token # "ok" \/ ~consent.user.present
  THEN [calls |-> <<"consentRequest", "consentDecision", "consentToken">>,
        results |-> <<"ok", "ok", IF consent.token = "ok" THEN "empty"
                                  ELSE consent.token>>,
        log |-> ConsentLog(consent.token),
        err |-> ConsentError(consent.token), user |-> NoPassportProfile]
  ELSE [calls |-> <<"consentRequest", "consentDecision", "consentToken">>,
        results |-> <<"ok", "ok", "ok">>, log |-> << >>, err |-> None,
        user |-> consent.user]

\* As PassportDisplayName, taking the name of the user-info profile first
PassportDisplayNamePreferringProfile(passportProfile, profile) ==
  IF ~Falsy(profile.name) THEN profile.name ELSE passportProfile.nickname

\* `const name = passportProfile.nickname`
PassportDisplayName(passportProfile, profile) == passportProfile.nickname

\* As NameMissing, failing only when the name is undefined
NameMissingOnlyUndefined(name) == name = None

\* `if (!name)`
NameMissing(name) == Falsy(name)

\* `const profileId = profile.sub ? profile.sub : profile.id`
ProfileId(profile) == IF ~Falsy(profile.sub) THEN profile.sub ELSE profile.id

\* The verify callback of the enrichment-by-email router, up to the call of
\* accountProvisioner
VerifyByEmailStep(r, userInfoResponse, lookup) ==
  LET req == PassportRequest(userInfoResponse)
      profile == req.profile
      token == decodeIdToken(r.tokens.idToken)
      email == Coalesce(profile.email, token.email)
      fetched == fetchPassportProfileByEmail(email, lookup)
      passportProfile == fetched.profile
      name == PassportDisplayName(passportProfile, profile)
      profileId == ProfileId(profile)
      avatarUrl == passportProfile.avatar_url
      r1 == [r EXCEPT !.calls = Append(@, "request"),
                      !.userInfoResponse = userInfoResponse,
                      !.variant = "email"]
      r2 == [r1 EXCEPT !.calls = @ \o fetched.calls,
                       !.enrichmentResults = fetched.results,
                       !.log = @ \o fetched.log,
                       !.enrichment = passportProfile]
      r3 == Logged(r2, "failWithPassportProfileError", "error",
                   ({email} \cup PassportProfileValues(passportProfile)
                      \cup {profile.sub, profile.id, profile.name,
                             profile.nickname, profile.preferred_username,
                             profile.picture, token.email,
                             token.preferred_username}) \ {None})
  IN  IF req.err # None THEN PassportDone(r1, req.err)
      ELSE IF Falsy(email) THEN PassportDone(r1, "AuthenticationError")
      ELSE IF parseEmail(email).domain = None
      THEN PassportDone(r2, "OIDCMalformedUserInfoError")
      ELSE IF ~passportProfile.present
      THEN PassportDone(r3, "AuthenticationError")
      ELSE IF NameMissing(name) THEN PassportDone(r3, "AuthenticationError")
      ELSE IF Falsy(profileId) THEN PassportDone(r2, "AuthenticationError")
      ELSE IF Falsy(avatarUrl) THEN PassportDone(r3, "AuthenticationError")
      ELSE IF AvatarInvalid(avatarUrl)
      THEN PassportDone(r3, "AuthenticationError")
      ELSE [r2 EXCEPT !.pc = "ClaimsResolved",
                      !.identity = [email |-> email, name |-> name,
                                    avatarUrl |-> avatarUrl,
                                    authProviderId |-> profileId]]

\* The verify callback of the consent-exchange router, up to the call of
\* accountProvisioner
VerifyByConsentStep(r, userInfoResponse, consent) ==
  LET req == PassportRequest(userInfoResponse)
      profile == req.profile
      token == decodeIdToken(r.tokens.idToken)
      fetched == fetchPassportProfileByConsent(consent)
      passportProfile == fetched.user
      email == Coalesce(passportProfile.email,
               Coalesce(profile.email, token.email))
      name == PassportDisplayName(passportProfile, profile)
      profileId == ProfileId(profile)
      avatarUrl == passportProfile.avatar_url
      r1 == [r EXCEPT !.calls = Append(@, "request"),
                      !.userInfoResponse = userInfoResponse,
                      !.variant = "consent"]
      r2 == [r1 EXCEPT !.calls = @ \o fetched.calls,
                       !.enrichmentResults = fetched.results,
                       !.log = @ \o fetched.log,
                       !.enrichment = passportProfile]
      r3 == Logged(r2, "failWithPassportProfileError", "error",
                   ({email} \cup PassportProfileValues(passportProfile)
                      \cup {profile.sub, profile.id, profile.name,
                             profile.nickname, profile.preferred_username,
                             profile.picture, token.email,
                             token.preferred_username}) \ {None})
  IN  IF req.err # None THEN PassportDone(r1, req.err)
      ELSE IF fetched.err # None THEN PassportDone(r2, fetched.err)
      ELSE IF Falsy(email) THEN PassportDone(r2, "AuthenticationError")
      ELSE IF parseEmail(email).domain = None
      THEN PassportDone(r2, "OIDCMalformedUserInfoError")
      ELSE IF NameMissing(name) THEN PassportDone(r3, "AuthenticationError")
      ELSE IF Falsy(profileId) THEN PassportDone(r2, "AuthenticationError")
      ELSE IF AvatarInvalid(avatarUrl)
      THEN PassportDone(r3, "AuthenticationError")
      ELSE [r2 EXCEPT !.pc = "ClaimsResolved",
                      !.identity = [email |-> email, name |-> name,
                                    avatarUrl |-> avatarUrl,
                                    authProviderId |-> profileId]]

----------------------------------------------------------------------------
(* The authentication provider of the team *)

\* slugifyDomain: the domain without its last label
slugifyDomain(domain) ==
  CASE domain = "example.com" -> "example"
    [] domain = "example.org" -> "example"
    [] domain = "other.example" -> "other"
    [] OTHER -> domain

\* `new URL(endpoints.authorizationURL).hostname`
OidcHostname == "idp.example"

\* The two AuthenticationProvider.findOne calls: the registration of the team
\* whose providerId is the domain, else the first registration of the team the
\* database returns, else none; no query at all without a team
FindAuthenticationProvider(domain) ==
  IF env.team = None THEN None
  ELSE IF \E i \in 1..Len(env.providers) : env.providers[i] = domain
  THEN domain
  ELSE IF env.providers # << >> THEN env.providers[1]
  ELSE None

\* The identifier derived when no registration was found
DerivedProviderId(variant, domain) ==
  IF variant = "fetch"
  THEN Coalesce(slugifyDomain(domain), Coalesce(domain, "oidc"))
  ELSE OidcHostname

\* As ProviderId, never looking at the registrations
ProviderIdAlwaysDerived(variant, domain) == DerivedProviderId(variant, domain)

\* `authenticationProvider?.providerId ?? ...`
ProviderId(variant, domain) ==
  Coalesce(FindAuthenticationProvider(domain),
           DerivedProviderId(variant, domain))

----------------------------------------------------------------------------
(* The language of the user *)

\* `languages` of @shared/i18n: the supported locales
languages == {"en_US", "zh_TW", "pt_BR"}

\* `language.replace("-", "_")`: the first hyphen only
ReplaceHyphen(language) ==
  CASE language = "zh-TW" -> "zh_TW"
    [] language = "xx-YY" -> "xx_YY"
    [] language = "zh-Hant-TW" -> "zh_Hant-TW"
    [] OTHER -> language

\* normalizeLanguage
normalizeLanguage(language) ==
  IF Falsy(language) THEN None
  ELSE IF ReplaceHyphen(language) \in languages THEN ReplaceHyphen(language)
  ELSE None

\* The `language` each router hands to accountProvisioner
UserLanguage(r) ==
  IF r.variant = "fetch"
  THEN normalizeLanguage(
         Coalesce(parseString(r.userInfoResponse.claims.locale),
                  parseString(decodeIdToken(r.tokens.idToken).locale)))
  ELSE IF r.variant = "consent"
  THEN normalizeLanguage(r.enrichment.preferred_language)
  ELSE r.enrichment.preferred_language

----------------------------------------------------------------------------
(* The scope lists *)

\* `env.OIDC_SCOPES.split(" ").map((scope) => scope.trim())`
RECURSIVE TrimAll(_)
TrimAll(input) ==
  IF input = << >> THEN << >>
  ELSE <<Trim(Head(input))>> \o TrimAll(Tail(input))

\* As dedupeScopes, dropping the empty entries only
RECURSIVE dedupeScopesKeepingDuplicates(_)
dedupeScopesKeepingDuplicates(input) ==
  IF input = << >> THEN << >>
  ELSE IF Head(input) = "" THEN dedupeScopesKeepingDuplicates(Tail(input))
  ELSE <<Head(input)>> \o dedupeScopesKeepingDuplicates(Tail(input))

\* dedupeScopes: the non-empty entries, each at its first occurrence
RECURSIVE dedupeScopes(_)
dedupeScopes(input) ==
  IF input = << >> THEN << >>
  ELSE LET scope == input[Len(input)]
           before == SubSeq(input, 1, Len(input) - 1)
           output == dedupeScopes(before)
       IN  IF scope = "" THEN output
           ELSE IF \E i \in 1..Len(output) : output[i] = scope THEN output
           ELSE Append(output, scope)

\* As RouterScopes, leaving the configured list as it is
RouterScopesWithoutOpenid(configured) == dedupeScopes(TrimAll(configured))

\* The scopes createOIDCRouter computes once: `openid` is put first when the
\* configured list does not hold it
RouterScopes(configured) ==
  LET deduped == dedupeScopes(TrimAll(configured))
  IN  IF \E i \in 1..Len(deduped) : deduped[i] = "openid" THEN deduped
      ELSE <<"openid">> \o deduped

\* `scope.split(" ")` of the scope the token endpoint granted
SplitScope(scope) ==
  CASE scope = "openid email" -> <<"openid", "email">>
    [] scope = "email profile" -> <<"email", "profile">>
    [] OTHER -> <<scope>>

\* tokenScopes: the granted scopes or, without them, the router's, trimmed
\* and deduplicated into a new array, `openid` put first when it is missing
TokenScopes(scope, routerScopes) ==
  LET tokenScopes == dedupeScopes(TrimAll(IF scope # None
                                          THEN SplitScope(scope)
                                          ELSE routerScopes))
  IN  IF \E i \in 1..Len(tokenScopes) : tokenScopes[i] = "openid"
      THEN tokenScopes
      ELSE <<"openid">> \o tokenScopes

\* As RouterScopesAfter, with tokenScopes kept in the router's own array
RouterScopesAfterInPlace(routerScopes, scope) ==
  TokenScopes(scope, routerScopes)

\* The router's `scopes` once a callback has built its tokenScopes: `map` and
\* dedupeScopes return new arrays and `unshift` acts on the new one, so the
\* router's array is what it was
RouterScopesAfter(routerScopes, scope) == routerScopes

----------------------------------------------------------------------------
(* Provisioning and sign-in *)

\* `const result = await accountProvisioner(ctxWithIp, {...})`
ProvisionStep(r, outcome) ==
  LET domain == parseEmail(r.identity.email).domain
      r1 == [r EXCEPT !.calls = Append(@, "accountProvisioner"),
                      !.provision =
                        [called |-> TRUE, email |-> r.identity.email,
                         name |-> r.identity.name,
                         avatarUrl |-> r.identity.avatarUrl,
                         authProviderId |-> r.identity.authProviderId,
                         accessToken |-> r.tokens.accessToken,
                         refreshToken |-> r.tokens.refreshToken,
                         teamId |-> env.team,
                         language |-> UserLanguage(r),
                         providerId |-> ProviderId(r.variant, domain),
                         scopes |-> TokenScopes(r.tokens.scope, scopes)]]
  IN  IF outcome # None
      THEN Catch(r1, outcome)
      ELSE [r1 EXCEPT !.pc = "Provisioned"]

\* getClientFromContext: the client variant the request itself tells
getClientFromContext(r) == r.requestClient

\* As SessionClient, looking at the request only
SessionClientFromRequest(r) == getClientFromContext(r)

\* `parsedState?.client === Client.Desktop ? Client.Desktop
\*    : getClientFromContext(ctx)`
SessionClient(r) ==
  IF r.cookie.present /\ parseState(r.cookie).client = Desktop THEN Desktop
  ELSE getClientFromContext(r)

\* `await signIn(ctx, config.id, {...result, client})`
SignInStep(r) ==
  [r EXCEPT !.calls = Append(@, "signIn"), !.session = TRUE,
            !.client = SessionClient(r),
            !.pc = "SessionEstablished"]

----------------------------------------------------------------------------
(* The initiation route *)

NoUrl ==
  [present |-> FALSE, state |-> None, code_challenge |-> None,
   code_challenge_method |-> None, scope |-> << >>]

\* As AuthorizationUrl, with the `state` parameter left out
AuthorizationUrlWithoutState(pkceEnabled, stateToken, codeVerifier) ==
  LET withChallenge == pkceEnabled /\ codeVerifier # None /\ codeVerifier # ""
  IN  [present |-> TRUE, state |-> None,
       code_challenge |-> IF withChallenge
                          THEN generateCodeChallenge(codeVerifier) ELSE None,
       code_challenge_method |-> IF withChallenge THEN "S256" ELSE None,
       scope |-> scopes]

\* As AuthorizationUrl, sending the verifier itself as the challenge
AuthorizationUrlPlainChallenge(pkceEnabled, stateToken, codeVerifier) ==
  LET withChallenge == pkceEnabled /\ codeVerifier # None /\ codeVerifier # ""
  IN  [present |-> TRUE, state |-> stateToken,
       code_challenge |-> IF withChallenge THEN codeVerifier ELSE None,
       code_challenge_method |-> IF withChallenge THEN "S256" ELSE None,
       scope |-> scopes]

\* The authorization URL's query: scope, state, and the PKCE challenge when
\* enabled
AuthorizationUrl(pkceEnabled, stateToken, codeVerifier) ==
  LET withChallenge == pkceEnabled /\ codeVerifier # None /\ codeVerifier # ""
  IN  [present |-> TRUE, state |-> stateToken,
       code_challenge |-> IF withChallenge
                          THEN generateCodeChallenge(codeVerifier) ELSE None,
       code_challenge_method |-> IF withChallenge THEN "S256" ELSE None,
       scope |-> scopes]

\* StateStore.store: a fresh token, and the cookie that carries the state
StateStoreStore(client, codeVerifier, n, iss) ==
  LET token == "n" \o ToString(n)
  IN  [token |-> token,
       cookie |-> buildState(RequestHost, token, client, codeVerifier, iss)]

\* The verifier the initiation route generates: only when PKCE is enabled
InitiationVerifier(pkceEnabled, n) ==
  IF pkceEnabled THEN generateCodeVerifier(n) ELSE None

\* createOIDCRouter mounts its routes unless an endpoint is missing: it throws
\* then, before `router.get`
RoutesMounted == env.endpointsConfigured

\* GET /auth/oidc: store the state, then redirect to the authorization URL
Initiate(client) ==
  /\ RoutesMounted
  /\ Len(flows) < MaxFlows
  /\ LET iss == Len(flows) + 1
         codeVerifier == InitiationVerifier(env.pkce, rand + 1)
         stored == StateStoreStore(client, codeVerifier, rand + 2, iss)
     IN  /\ flows' = Append(flows,
                       [client |-> client, codeVerifier |-> codeVerifier,
                        token |-> stored.token, cookie |-> stored.cookie,
                        url |-> AuthorizationUrl(env.pkce, stored.token,
                                                 codeVerifier),
                        log |-> << >>])
         /\ jar' = stored.cookie
  /\ rand' = rand + 2
  /\ UNCHANGED <<env, scopes, expired, cb, cardVars, boardVars>>

\* GET /auth/oidc when storing the state fails: no redirect, the error is
\* logged and an error is thrown
InitiateFails(client) ==
  /\ RoutesMounted
  /\ Len(flows) < MaxFlows
  /\ flows' = Append(flows,
                [client |-> client,
                 codeVerifier |-> InitiationVerifier(env.pkce, rand + 1),
                 token |-> None, cookie |-> NoCookie, url |-> NoUrl,
                 log |-> <<LogRecord("initiation", "error", {})>>])
  /\ rand' = rand + 1
  /\ UNCHANGED <<env, scopes, expired, jar, cb, cardVars, boardVars>>

\* The state token of a flow outlives its TTL; the client drops the cookie.
Expire(f) ==
  /\ f \in 1..Len(flows)
  /\ f \notin expired
  /\ \A g \in 1..(f - 1) : g \in expired
  /\ expired' = expired \cup {f}
  /\ jar' = IF jar.present /\ jar.iss = f THEN NoCookie ELSE jar
  /\ UNCHANGED <<env, scopes, rand, flows, cb, cardVars, boardVars>>

----------------------------------------------------------------------------
(* The callback route *)

IssuedTokens == { flows[f].token : f \in 1..Len(flows) } \ {None}

PresentableCookies ==
  {NoCookie} \cup { k \in IssuedCookies : k.present }
             \cup UNION { Tampered(k) : k \in { i \in IssuedCookies : i.present } }

Responded == { d \in Callbacks : cb[d].responded }

\* A request reaches GET/POST /auth/oidc.callback: its parameters and cookie
Receive(c, code, state, error, cookie) ==
  /\ RoutesMounted
  /\ cb[c].pc = "idle"
  /\ \A d \in Callbacks : d < c => cb[d].pc # "idle"
  /\ cb' = [cb EXCEPT ![c] = [@ EXCEPT !.pc = "CallbackReceived",
                                       !.code = code, !.state = state,
                                       !.error = error, !.cookie = cookie,
                                       !.fromJar = (cookie = jar),
                                       !.after = Responded]]
  /\ UNCHANGED <<env, scopes, rand, flows, expired, jar, cardVars, boardVars>>

\* As Receive, from a client of either variant
ReceiveFrom(c, code, state, error, cookie, requestClient) ==
  /\ RoutesMounted
  /\ cb[c].pc = "idle"
  /\ \A d \in Callbacks : d < c => cb[d].pc # "idle"
  /\ cb' = [cb EXCEPT ![c] = [@ EXCEPT !.pc = "CallbackReceived",
                                       !.code = code, !.state = state,
                                       !.error = error, !.cookie = cookie,
                                       !.fromJar = (cookie = jar),
                                       !.after = Responded,
                                       !.requestClient = requestClient]]
  /\ UNCHANGED <<env, scopes, rand, flows, expired, jar, cardVars, boardVars>>

VerifyState(c) ==
  /\ cb[c].pc = "CallbackReceived"
  /\ cb' = [cb EXCEPT ![c] = VerifyStep(@, expired)]
  /\ UNCHANGED <<env, scopes, rand, flows, expired, jar, cardVars, boardVars>>

ExchangeToken(c, response) ==
  /\ cb[c].pc = "StateVerified"
  /\ cb' = [cb EXCEPT ![c] = ExchangeStep(@, response)]
  /\ UNCHANGED <<env, scopes, rand, flows, expired, jar, cardVars, boardVars>>

ResolveClaims(c, userInfoResponse) ==
  /\ env.variant = "fetch"
  /\ cb[c].pc = "TokenExchanged"
  /\ cb' = [cb EXCEPT ![c] = ResolveStep(@, userInfoResponse)]
  /\ UNCHANGED <<env, scopes, rand, flows, expired, jar, cardVars, boardVars>>

\* The strategy hands the tokens to the verify callback (enrichment by email)
VerifyByEmail(c, userInfoResponse, lookup) ==
  /\ env.variant = "email"
  /\ cb[c].pc = "TokenExchanged"
  /\ cb' = [cb EXCEPT ![c] = VerifyByEmailStep(@, userInfoResponse, lookup)]
  /\ UNCHANGED <<env, scopes, rand, flows, expired, jar, cardVars, boardVars>>

\* The strategy hands the tokens to the verify callback (consent exchange)
VerifyByConsent(c, userInfoResponse, consent) ==
  /\ env.variant = "consent"
  /\ cb[c].pc = "TokenExchanged"
  /\ cb' = [cb EXCEPT ![c] = VerifyByConsentStep(@, userInfoResponse, consent)]
  /\ UNCHANGED <<env, scopes, rand, flows, expired, jar, cardVars, boardVars>>

Provision(c, outcome) ==
  /\ cb[c].pc = "ClaimsResolved"
  /\ cb' = [cb EXCEPT ![c] = ProvisionStep(@, outcome)]
  /\ scopes' = RouterScopesAfter(scopes, cb[c].tokens.scope)
  /\ UNCHANGED <<env, rand, flows, expired, jar, cardVars, boardVars>>

SignIn(c) ==
  /\ cb[c].pc = "Provisioned"
  /\ cb' = [cb EXCEPT ![c] = SignInStep(@)]
  /\ UNCHANGED <<env, scopes, rand, flows, expired, jar, cardVars, boardVars>>

\* The client drops the connection of a callback that is being handled.
\* handleCallback holds no abort signal and looks at no state of the request:
\* nothing of the invocation changes.
Disconnect(c) ==
  /\ cb[c].pc \in {"CallbackReceived", "StateVerified", "TokenExchanged",
                   "ClaimsResolved", "Provisioned"}
  /\ cb[c].connected
  /\ cb' = [cb EXCEPT ![c].connected = FALSE]
  /\ UNCHANGED <<env, scopes, rand, flows, expired, jar, cardVars, boardVars>>

\* The response reaches the client, which applies its Set-Cookie headers.
Respond(c) ==
  /\ cb[c].pc \in {"Failed", "SessionEstablished"}
  /\ cb[c].connected
  /\ ~cb[c].responded
  /\ cb' = [cb EXCEPT ![c].responded = TRUE]
  /\ jar' = IF cb[c].clearCookie THEN NoCookie ELSE jar
  /\ UNCHANGED <<env, scopes, rand, flows, expired, cardVars, boardVars>>

----------------------------------------------------------------------------

\* The deployments: endpoints.pkce, env.isCloudHosted and env.isDevelopment,
\* the router in use, the team the request's host belongs to (if any) and the
\* providerIds of the team's registrations named "oidc", in database order,
\* env.OIDC_SCOPES split at its spaces (the default: "openid profile email")
\* env.OIDC_USERNAME_CLAIM (the default: "preferred_username"), whether the
\* three endpoint URLs are set and whether both client credentials are set.
\* No code path reads all three, so the set pairs every value of each flag with
\* every value of each other flag.
Deployment(pkce, isCloudHosted, isDevelopment) ==
  [pkce |-> pkce, isCloudHosted |-> isCloudHosted,
   isDevelopment |-> isDevelopment, variant |-> "fetch",
   team |-> "team1", providers |-> << >>,
   scopes |-> <<"openid", "profile", "email">>,
   usernameClaim |-> "preferred_username",
   endpointsConfigured |-> TRUE, credentialsConfigured |-> TRUE]

Deployments ==
  { Deployment(TRUE, TRUE, FALSE), Deployment(FALSE, FALSE, FALSE),
    Deployment(TRUE, FALSE, TRUE), Deployment(FALSE, TRUE, TRUE) }

\* The card as the store and the server hold it before any call
InitialCard ==
  [columnId |-> "todo", index |-> "a0", title |-> "T0", description |-> "D0",
   tags |-> "g0", assigneeIds |-> "u0", metadata |-> "m0",
   dueOffsetDays |-> None, updatedAt |-> 0]

\* The store with its card loaded and no call made
CardsAtRest ==
  /\ card = InitialCard
  /\ server = InitialCard
  /\ cardCalls = << >>
  /\ now = 1

\* The tables without a row
NoRows == [boards |-> << >>, columns |-> << >>, events |-> << >>]

\* No boards.enable request
BoardsAtRest ==
  /\ boards = NoRows
  /\ reqs = << >>

Init ==
  /\ env \in Deployments
  /\ rand = 0
  /\ scopes = RouterScopes(env.scopes)
  /\ CardsAtRest
  /\ BoardsAtRest
  /\ flows = << >>
  /\ expired = {}
  /\ jar = NoCookie
  /\ cb = [c \in Callbacks |-> IdleCb]

\* One callback invocation, against every request a client can send.
One == {1}

NextFlow ==
  \/ \E client \in Clients : Initiate(client)
  \/ \E client \in Clients : InitiateFails(client)
  \/ \E f \in 1..MaxFlows : Expire(f)

Next ==
  \/ NextFlow
  \/ \E c \in One, code \in Codes, state \in IssuedTokens \cup {None},
        error \in Errors, cookie \in PresentableCookies :
       Receive(c, code, state, error, cookie)
  \/ \E c \in One : VerifyState(c)
  \/ \E c \in One, response \in TokenResponses : ExchangeToken(c, response)
  \/ \E c \in One, userInfoResponse \in UserInfoResponses :
       ResolveClaims(c, userInfoResponse)
  \/ \E c \in One, outcome \in ProvisionOutcomes : Provision(c, outcome)
  \/ \E c \in One : SignIn(c)
  \/ \E c \in One : Respond(c)

Spec == Init /\ [][Next]_vars

\* Two callback invocations, overlapping or one after the other, that present
\* cookies the initiation route issued.
NextTwo ==
  \/ NextFlow
  \/ \E c \in Callbacks, state \in IssuedTokens, error \in Errors,
        cookie \in { k \in IssuedCookies : k.present } :
       Receive(c, "abc123", state, error, cookie)
  \/ \E c \in Callbacks : VerifyState(c)
  \/ \E c \in Callbacks :
       ExchangeToken(c, TokenResponse(TRUE, "t1", "rt1", "jwt1", None))
  \/ \E c \in Callbacks :
       ResolveClaims(c, UserInfoResponse(TRUE,
                          Claims("a@example.com", "Alice", None, "sub1", None)))
  \/ \E c \in Callbacks, outcome \in {None, "ProvisioningError"} :
       Provision(c, outcome)
  \/ \E c \in Callbacks : SignIn(c)
  \/ \E c \in Callbacks : Respond(c)

\* A cloud-hosted production deployment with PKCE
InitTwo ==
  /\ Init
  /\ env = Deployment(TRUE, TRUE, FALSE)

SpecTwo == InitTwo /\ [][NextTwo]_vars

\* The three routers: the one that resolves the identity from user-info and
\* the id token alone ("fetch"), and the two that enrich it, by a lookup by
\* email ("email") or by a consent exchange ("consent")
Variants == {"fetch", "email", "consent"}

\* A self-hosted production deployment of any of the three routers
InitVariants ==
  /\ env \in { [Deployment(FALSE, FALSE, FALSE) EXCEPT !.variant = v] :
                 v \in Variants }
  /\ rand = 0
  /\ scopes = RouterScopes(env.scopes)
  /\ CardsAtRest
  /\ BoardsAtRest
  /\ flows = << >>
  /\ expired = {}
  /\ jar = NoCookie
  /\ cb = [c \in Callbacks |-> IdleCb]

\* One callback invocation with a valid request, against every answer of the
\* user-info endpoint and of the enrichment service
NextVariants ==
  \/ NextFlow
  \/ \E c \in One, state \in IssuedTokens,
        cookie \in { k \in IssuedCookies : k.present } :
       Receive(c, "abc123", state, None, cookie)
  \/ \E c \in One : VerifyState(c)
  \/ \E c \in One, response \in { TokenResponse(TRUE, "t1", "rt1", "jwt1", None),
                                  TokenResponse(TRUE, "t1", None, None, None) } :
       ExchangeToken(c, response)
  \/ \E c \in One, userInfoResponse \in UserInfoResponses :
       ResolveClaims(c, userInfoResponse)
  \/ \E c \in One, userInfoResponse \in UserInfoResponses,
        lookup \in EmailLookups :
       VerifyByEmail(c, userInfoResponse, lookup)
  \/ \E c \in One, userInfoResponse \in UserInfoResponses,
        consent \in ConsentExchanges :
       VerifyByConsent(c, userInfoResponse, consent)
  \/ \E c \in One, outcome \in ProvisionOutcomes : Provision(c, outcome)
  \/ \E c \in One : SignIn(c)
  \/ \E c \in One : Respond(c)

SpecVariants == InitVariants /\ [][NextVariants]_vars

\* The registrations a team can have: none, one for a mail domain, one made
\* for another identifier, or two
ProviderRegistrations ==
  { << >>, <<"example.com">>, <<"other.example">>, <<"legacy">>,
    <<"legacy", "example.com">>, <<"other.example", "legacy">> }

\* A self-hosted production deployment of any of the three routers, reached
\* on the host of a team with some registrations or on a host without a team
InitProviders ==
  /\ env \in { [Deployment(FALSE, FALSE, FALSE)
                   EXCEPT !.variant = v, !.team = "team1", !.providers = p] :
                 v \in Variants, p \in ProviderRegistrations }
             \cup { [Deployment(FALSE, FALSE, FALSE)
                       EXCEPT !.variant = v, !.team = None] : v \in Variants }
  /\ rand = 0
  /\ scopes = RouterScopes(env.scopes)
  /\ CardsAtRest
  /\ BoardsAtRest
  /\ flows = << >>
  /\ expired = {}
  /\ jar = NoCookie
  /\ cb = [c \in Callbacks |-> IdleCb]

\* The user-info answers of two users of different mail domains
ProviderUserInfoResponses ==
  { UserInfoResponse(TRUE, Claims("a@example.com", "Alice", None, "sub1", None)),
    UserInfoResponse(TRUE, Claims("b@other.example", "Bob", "bob", "sub2",
                                  None)) }

\* One callback invocation with a valid request, for users of two domains
NextProviders ==
  \/ \E client \in Clients : Initiate(client)
  \/ \E c \in One, state \in IssuedTokens,
        cookie \in { k \in IssuedCookies : k.present } :
       Receive(c, "abc123", state, None, cookie)
  \/ \E c \in One : VerifyState(c)
  \/ \E c \in One :
       ExchangeToken(c, TokenResponse(TRUE, "t1", "rt1", None, None))
  \/ \E c \in One, userInfoResponse \in ProviderUserInfoResponses :
       ResolveClaims(c, userInfoResponse)
  \/ \E c \in One, userInfoResponse \in ProviderUserInfoResponses,
        lookup \in { l \in EmailLookups : l.profile.present } :
       VerifyByEmail(c, userInfoResponse, lookup)
  \/ \E c \in One, userInfoResponse \in ProviderUserInfoResponses,
        consent \in { x \in ConsentExchanges : x.user.present } :
       VerifyByConsent(c, userInfoResponse, consent)
  \/ \E c \in One, outcome \in ProvisionOutcomes : Provision(c, outcome)
  \/ \E c \in One : SignIn(c)
  \/ \E c \in One : Respond(c)

SpecProviders == InitProviders /\ [][NextProviders]_vars

\* The longest configured scope list
MaxScopes == 3

\* What an entry of the configured list can be: a scope, nothing (two spaces
\* in a row) or a scope with other white space around it
ScopeEntries == {"openid", "profile", "email", "", "email\t"}

RECURSIVE SeqsUpTo(_, _)
SeqsUpTo(S, n) ==
  IF n = 0 THEN {<< >>}
  ELSE LET shorter == SeqsUpTo(S, n - 1)
       IN  shorter \cup { Append(q, x) : q \in shorter, x \in S }

\* A deployment with any configured scope list
InitScopes ==
  /\ env \in { [Deployment(pkce, FALSE, FALSE) EXCEPT !.scopes = configured] :
                 pkce \in BOOLEAN, configured \in SeqsUpTo(ScopeEntries, MaxScopes) }
  /\ rand = 0
  /\ scopes = RouterScopes(env.scopes)
  /\ CardsAtRest
  /\ BoardsAtRest
  /\ flows = << >>
  /\ expired = {}
  /\ jar = NoCookie
  /\ cb = [c \in Callbacks |-> IdleCb]

\* The initiation route alone
NextScopes ==
  \/ \E client \in Clients : Initiate(client)
  \/ \E client \in Clients : InitiateFails(client)

SpecScopes == InitScopes /\ [][NextScopes]_vars

\* What an identity provider or the enrichment service can give as locale
Locales ==
  {None, "", "en_US", "zh-TW", "xx-YY", "zh-Hant-TW", "not a locale"}

\* Complete user-info answers with any locale
LocaleUserInfoResponses ==
  { UserInfoResponse(TRUE, [Claims("a@example.com", "Alice", "alice", "sub1",
                                   None) EXCEPT !.locale = l]) :
      l \in Locales }

\* Complete enrichment profiles with any preferred language
LocalePassportProfiles ==
  { [PassportProfile("p1", "a@example.com", "Ally",
                     "https://cdn.example/a.png")
       EXCEPT !.preferred_language = l] : l \in Locales }

\* One callback invocation with a valid request and a complete identity,
\* against every locale
NextLocales ==
  \/ \E client \in Clients : Initiate(client)
  \/ \E c \in One, state \in IssuedTokens,
        cookie \in { k \in IssuedCookies : k.present } :
       Receive(c, "abc123", state, None, cookie)
  \/ \E c \in One : VerifyState(c)
  \/ \E c \in One, idToken \in {None, "jwt1", "jwt2"} :
       ExchangeToken(c, TokenResponse(TRUE, "t1", "rt1", idToken, None))
  \/ \E c \in One, userInfoResponse \in LocaleUserInfoResponses :
       ResolveClaims(c, userInfoResponse)
  \/ \E c \in One, userInfoResponse \in LocaleUserInfoResponses,
        profile \in LocalePassportProfiles :
       VerifyByEmail(c, userInfoResponse, EmailLookup(TRUE, "ok", profile))
  \/ \E c \in One, userInfoResponse \in LocaleUserInfoResponses,
        user \in LocalePassportProfiles :
       VerifyByConsent(c, userInfoResponse,
                       ConsentExchange(TRUE, "ok", "ok", "ok", user))
  \/ \E c \in One : Provision(c, None)
  \/ \E c \in One : SignIn(c)
  \/ \E c \in One : Respond(c)

SpecLocales == InitVariants /\ [][NextLocales]_vars

\* What OIDC_USERNAME_CLAIM can be set to: nothing, a conventional field,
\* another claim, or a claim no provider sends
UsernameClaims ==
  {"", "preferred_username", "name", "nickname", "email", "handle"}

\* A self-hosted production deployment of the router without enrichment, with
\* any username claim
InitNames ==
  /\ env \in { [Deployment(FALSE, FALSE, FALSE) EXCEPT !.usernameClaim = u] :
                 u \in UsernameClaims }
  /\ rand = 0
  /\ scopes = RouterScopes(env.scopes)
  /\ CardsAtRest
  /\ BoardsAtRest
  /\ flows = << >>
  /\ expired = {}
  /\ jar = NoCookie
  /\ cb = [c \in Callbacks |-> IdleCb]

\* What a name field of the user-info answer can hold
NameValues(value) == {None, " ", value}

\* User-info answers with an email and a subject, and any name fields
NameUserInfoResponses ==
  { UserInfoResponse(TRUE, [Claims("a@example.com", n, u, "sub1", None)
                              EXCEPT !.nickname = k]) :
      n \in NameValues("Alice"), u \in NameValues("alice"),
      k \in NameValues("Al") }

\* One callback invocation with a valid request, against every combination
\* of name fields
NextNames ==
  \/ \E client \in Clients : Initiate(client)
  \/ \E c \in One, state \in IssuedTokens,
        cookie \in { k \in IssuedCookies : k.present } :
       Receive(c, "abc123", state, None, cookie)
  \/ \E c \in One : VerifyState(c)
  \/ \E c \in One, idToken \in {None, "jwt1", "jwt3"} :
       ExchangeToken(c, TokenResponse(TRUE, "t1", "rt1", idToken, None))
  \/ \E c \in One, userInfoResponse \in NameUserInfoResponses :
       ResolveClaims(c, userInfoResponse)
  \/ \E c \in One : Provision(c, None)
  \/ \E c \in One : SignIn(c)
  \/ \E c \in One : Respond(c)

SpecNames == InitNames /\ [][NextNames]_vars

\* The deployments with and without endpoints and client credentials
InitSettings ==
  /\ env \in { [d EXCEPT !.endpointsConfigured = e,
                         !.credentialsConfigured = k] :
                 d \in Deployments, e \in BOOLEAN, k \in BOOLEAN }
  /\ rand = 0
  /\ scopes = RouterScopes(env.scopes)
  /\ CardsAtRest
  /\ BoardsAtRest
  /\ flows = << >>
  /\ expired = {}
  /\ jar = NoCookie
  /\ cb = [c \in Callbacks |-> IdleCb]

\* One callback invocation, with or without the cookie of its flow
NextSettings ==
  \/ \E client \in Clients : Initiate(client)
  \/ \E c \in One, code \in Codes, state \in IssuedTokens \cup {None},
        cookie \in {NoCookie} \cup { k \in IssuedCookies : k.present } :
       Receive(c, code, state, None, cookie)
  \/ \E c \in One : VerifyState(c)
  \/ \E c \in One, response \in TokenResponses : ExchangeToken(c, response)
  \/ \E c \in One :
       ResolveClaims(c, UserInfoResponse(TRUE,
                          Claims("a@example.com", "Alice", None, "sub1", None)))
  \/ \E c \in One : Provision(c, None)
  \/ \E c \in One : SignIn(c)
  \/ \E c \in One : Respond(c)

SpecSettings == InitSettings /\ [][NextSettings]_vars

\* One callback invocation whose client may drop the connection at any point
\* before the handler is done
NextCancel ==
  \/ \E client \in Clients : Initiate(client)
  \/ \E c \in One, state \in IssuedTokens,
        cookie \in { k \in IssuedCookies : k.present } :
       Receive(c, "abc123", state, None, cookie)
  \/ \E c \in One : Disconnect(c)
  \/ \E c \in One : VerifyState(c)
  \/ \E c \in One, response \in TokenResponses : ExchangeToken(c, response)
  \/ \E c \in One, userInfoResponse \in UserInfoResponses :
       ResolveClaims(c, userInfoResponse)
  \/ \E c \in One, outcome \in ProvisionOutcomes : Provision(c, outcome)
  \/ \E c \in One : SignIn(c)
  \/ \E c \in One : Respond(c)

SpecCancel == Init /\ [][NextCancel]_vars

----------------------------------------------------------------------------
(* Properties *)

\* `state ?? ""`: the token handleCallback hands to stateStore.verify
ProvidedToken(r) == IF r.state = None THEN "" ELSE r.state

Started(r) == r.pc \notin {"idle", "CallbackReceived"}

Called(r, name) == \E i \in 1..Len(r.calls) : r.calls[i] = name

\* The returned state differs from the value the presented cookie carries
\* (or there is no cookie to carry one).
StateDiffers(r) == ~r.cookie.present \/ r.cookie.token # ProvidedToken(r)

NoOutboundCall(r) ==
  /\ ~Called(r, "exchangeAuthorizationCode")
  /\ ~Called(r, "fetchOIDCUserInfo")
  /\ ~Called(r, "accountProvisioner")
  /\ ~Called(r, "signIn")
  /\ ~r.body.sent
  /\ ~r.provision.called
  /\ ~r.session

\* C1 as claimed: a callback whose returned state does not match the value in
\* its state cookie fails with the state-mismatch error and invokes none of
\* exchangeAuthorizationCode, fetchOIDCUserInfo, accountProvisioner, signIn.
\* (Stated for a genuine cookie and a state parameter that is present.)
C1_StateMismatchAlways ==
  \A c \in Callbacks :
    (/\ Started(cb[c])
     /\ cb[c].cookie.present /\ SigValid(cb[c].cookie)
     /\ cb[c].state # None
     /\ cb[c].state # cb[c].cookie.token) =>
      /\ cb[c].pc = "Failed"
      /\ cb[c].err = "OAuthStateMismatchError"
      /\ NoOutboundCall(cb[c])

\* C1 as amended: a callback whose returned state does not match the value in
\* its state cookie always fails without any outbound call; it fails with the
\* state-mismatch error when it carries a code and no error parameter, and
\* with the authentication error raised before verification otherwise.
C1_StateMismatchNoOutbound ==
  \A c \in Callbacks :
    (Started(cb[c]) /\ StateDiffers(cb[c])) =>
      /\ cb[c].pc = "Failed"
      /\ NoOutboundCall(cb[c])
      /\ IF cb[c].code = "abc123" /\ cb[c].error = None
         THEN cb[c].err = "OAuthStateMismatchError" /\ Called(cb[c], "verify")
         ELSE cb[c].err = "AuthenticationError" /\ ~Called(cb[c], "verify")

\* C1 witness: a callback with a code, no error parameter, a genuine unexpired
\* cookie and a state parameter naming another flow has failed.
C1_Witness ==
  \E c \in Callbacks :
    /\ cb[c].pc = "Failed"
    /\ cb[c].code = "abc123" /\ cb[c].error = None
    /\ cb[c].cookie.present /\ SigValid(cb[c].cookie)
    /\ cb[c].cookie.iss \notin expired
    /\ cb[c].state \in IssuedTokens
    /\ cb[c].state # cb[c].cookie.token

----------------------------------------------------------------------------

\* The collaborators a callback invokes, in the order of the code
CallOrder ==
  <<"verify", "exchangeAuthorizationCode", "fetchOIDCUserInfo",
    "accountProvisioner", "signIn">>

StepOrder ==
  <<"CallbackReceived", "StateVerified", "TokenExchanged", "ClaimsResolved",
    "Provisioned", "SessionEstablished">>

IsPrefix(s, t) == Len(s) <= Len(t) /\ \A i \in 1..Len(s) : s[i] = t[i]

StepIndex(pc) == CHOOSE i \in 1..Len(StepOrder) : StepOrder[i] = pc

\* In every state the calls made so far are an initial part of CallOrder (each
\* collaborator at most once, in order), a step that is not Failed has made
\* exactly the calls of the steps before it, and an error is recorded exactly
\* in Failed.
C2_StateOrder ==
  \A c \in Callbacks :
    /\ IsPrefix(cb[c].calls, CallOrder)
    /\ (cb[c].err # None) <=> (cb[c].pc = "Failed")
    /\ cb[c].pc \notin {"idle", "Failed"} =>
         Len(cb[c].calls) = StepIndex(cb[c].pc) - 1

\* Every step of a callback either enters the next step of StepOrder or
\* enters Failed, and nothing is invoked or changed once in Failed.
C2_StepOrder ==
  \A c \in Callbacks :
    LET p == cb[c].pc
        q == cb'[c].pc
    IN  /\ p # q =>
             \/ p = "idle" /\ q = "CallbackReceived"
             \/ /\ p \notin {"idle", "Failed", "SessionEstablished"}
                /\ \/ q = "Failed"
                   \/ q = StepOrder[StepIndex(p) + 1]
        /\ p = "Failed" =>
             /\ q = "Failed"
             /\ cb'[c].calls = cb[c].calls
             /\ cb'[c].body = cb[c].body
             /\ cb'[c].provision = cb[c].provision
             /\ cb'[c].session = cb[c].session

\* C2: within one callback invocation the steps StateVerified, TokenExchanged,
\* ClaimsResolved, Provisioned, SessionEstablished are entered only in that
\* order, each at most once, and Failed is absorbing: after a failure no later
\* step and no collaborator call happens in that invocation.
C2_SequentialAbsorbing == [](C2_StateOrder) /\ [][C2_StepOrder]_vars

\* C2 witness: a callback that failed at the token exchange has been answered
\* with exactly the calls made up to the failure.
C2_Witness ==
  \E c \in Callbacks :
    /\ cb[c].pc = "Failed" /\ cb[c].responded
    /\ cb[c].calls = <<"verify", "exchangeAuthorizationCode">>

----------------------------------------------------------------------------

\* The condition of a successful state verification
VerifyCondition(r, expiredNow) ==
  /\ r.cookie.present
  /\ SigValid(r.cookie)
  /\ r.cookie.iss \notin expiredNow
  /\ r.cookie.token = ProvidedToken(r)

C3_VerifyStep ==
  \A c \in Callbacks :
    (cb[c].pc = "CallbackReceived" /\ cb'[c].pc # "CallbackReceived") =>
      /\ cb'[c].pc = "StateVerified" =>
           /\ Called(cb'[c], "verify")
           /\ VerifyCondition(cb[c], expired)
      /\ (cb'[c].pc # "StateVerified" /\ Called(cb'[c], "verify")) =>
           /\ ~VerifyCondition(cb[c], expired)
           /\ cb'[c].pc = "Failed"
           /\ cb'[c].err = "OAuthStateMismatchError"

\* C3: a state verification succeeds if and only if the state cookie is
\* present, unexpired and untampered and the returned state parameter equals
\* the value signed into it; any other verification ends in the
\* state-mismatch error.
C3_VerifyIffValid == [][C3_VerifyStep]_vars

\* C3 witness: a verification has failed on a cookie with a broken signature
\* whose token equals the returned state.
C3_Witness ==
  \E c \in Callbacks :
    /\ Called(cb[c], "verify")
    /\ cb[c].err = "OAuthStateMismatchError"
    /\ cb[c].cookie.present /\ ~SigValid(cb[c].cookie)
    /\ cb[c].cookie.token = cb[c].state

----------------------------------------------------------------------------

Verified(r) == Called(r, "verify") /\ r.err # "OAuthStateMismatchError"

\* C4 as claimed: of the callbacks that present the same state cookie at most
\* one reaches StateVerified, and once a callback has terminated the cookie it
\* presented does not verify in a later callback.
C4_ConsumedOnce ==
  \A c, d \in Callbacks :
    (c # d /\ cb[c].cookie.present /\ cb[c].cookie = cb[d].cookie) =>
      /\ ~(Verified(cb[c]) /\ Verified(cb[d]))
      /\ c \in cb[d].after => ~Verified(cb[d])

\* C4 as amended: once a callback that attempted the state verification has
\* been answered, the client's cookie jar no longer holds the cookie it
\* presented: a later callback that carries the jar's cookie never carries
\* that one.  (A callback rejected before the verification leaves the cookie
\* in the jar, and the server keeps no record that would stop a copy of a
\* still-valid cookie from verifying again.)
C4_ClearedForTheClient ==
  \A c, d \in Callbacks :
    (/\ c \in cb[d].after
     /\ Called(cb[c], "verify")
     /\ cb[d].fromJar
     /\ cb[d].cookie.present) => cb[d].cookie # cb[c].cookie

\* C4 witness: a callback that verified a cookie has been answered, and a
\* later callback carrying the jar's cookie (of a newer flow) has verified too.
C4_Witness ==
  \E c, d \in Callbacks :
    /\ c \in cb[d].after
    /\ Verified(cb[c])
    /\ cb[d].fromJar /\ cb[d].cookie.present
    /\ Verified(cb[d])

----------------------------------------------------------------------------

C5_ClearedOnResponse ==
  \A c \in Callbacks :
    (~cb[c].responded /\ cb'[c].responded /\ Called(cb[c], "verify")) =>
      ~jar'.present

\* C5: every state-verification attempt, successful or not, clears the state
\* cookie: the response carries the clearing from the verification on, and
\* the client's jar is empty once the response is applied.
C5_AlwaysCleared ==
  /\ [](\A c \in Callbacks : Called(cb[c], "verify") => cb[c].clearCookie)
  /\ [][C5_ClearedOnResponse]_vars

\* C5 witness: a failed verification of the jar's own cookie has been answered
\* and the jar is empty.
C5_Witness ==
  \E c \in Callbacks :
    /\ Called(cb[c], "verify")
    /\ cb[c].err = "OAuthStateMismatchError"
    /\ cb[c].fromJar /\ cb[c].cookie.present
    /\ cb[c].responded
    /\ ~jar.present

----------------------------------------------------------------------------

\* C6: signIn is invoked, and a session set, only in a callback whose state
\* verification succeeded, whose token exchange returned an access token,
\* whose identity was resolved with email, name and subject, and whose
\* accountProvisioner call returned; a failed callback never has a session.
C6_SessionOnlyAfterAllSteps ==
  \A c \in Callbacks :
    /\ (cb[c].session \/ Called(cb[c], "signIn")) =>
         /\ cb[c].pc = "SessionEstablished"
         /\ cb[c].err = None
         /\ cb[c].calls = CallOrder
         /\ VerifyCondition(cb[c], {})
         /\ cb[c].response.ok
         /\ cb[c].tokens.accessToken \notin {None, "", " "}
         /\ cb[c].tokens.accessToken = cb[c].response.access_token
         /\ cb[c].identity.email \notin {None, "", " "}
         /\ cb[c].identity.name \notin {None, "", " "}
         /\ cb[c].identity.authProviderId \notin {None, "", " "}
         /\ cb[c].provision.called
    /\ cb[c].pc = "Failed" => ~cb[c].session

\* C6 witness: a session has been issued.
C6_Witness ==
  \E c \in Callbacks : cb[c].session /\ cb[c].pc = "SessionEstablished"

----------------------------------------------------------------------------

\* The flows whose initiation issued the state a callback returns
FlowsOf(r) == { f \in 1..Len(flows) : flows[f].token = r.state }

\* C7: with PKCE enabled, the code_verifier of every token exchange is the
\* verifier generated at the initiation of the same flow, the one whose
\* challenge went into that flow's authorization redirect.
C7_OriginalVerifier ==
  \A c \in Callbacks :
    (env.pkce /\ cb[c].body.sent) =>
      /\ FlowsOf(cb[c]) # {}
      /\ \A f \in FlowsOf(cb[c]) :
           /\ cb[c].body.code_verifier = flows[f].codeVerifier
           /\ flows[f].url.code_challenge =
                generateCodeChallenge(cb[c].body.code_verifier)

\* C7 witness: with PKCE enabled and two flows initiated, a token exchange of
\* the first flow has been sent.
C7_Witness ==
  \E c \in Callbacks :
    /\ env.pkce /\ cb[c].body.sent
    /\ Len(flows) = 2
    /\ flows[2].cookie.present
    /\ 1 \in FlowsOf(cb[c])

----------------------------------------------------------------------------

\* C8: the token request carries a code_verifier exactly when PKCE is enabled.
C8_VerifierIffPkce ==
  \A c \in Callbacks :
    cb[c].body.sent => ((cb[c].body.code_verifier # None) <=> env.pkce)

\* C8 witness: a token request has been sent with PKCE disabled.
C8_Witness ==
  \E c \in Callbacks :
    ~env.pkce /\ cb[c].body.sent /\ cb[c].body.code_verifier = None

----------------------------------------------------------------------------

\* C9: the authorization redirect carries code_challenge and
\* code_challenge_method=S256 exactly when PKCE is enabled; the verifier is in
\* the state cookie and in no parameter of the redirect.
C9_ChallengeIffPkce ==
  \A f \in 1..Len(flows) :
    flows[f].url.present =>
      /\ (flows[f].url.code_challenge # None) <=> env.pkce
      /\ (flows[f].url.code_challenge_method = "S256") <=> env.pkce
      /\ (flows[f].url.code_challenge_method # None) <=> env.pkce
      /\ env.pkce =>
           /\ flows[f].codeVerifier # None
           /\ flows[f].cookie.codeVerifier = flows[f].codeVerifier
           /\ flows[f].url.code_challenge =
                generateCodeChallenge(flows[f].codeVerifier)
           /\ flows[f].url.state # flows[f].codeVerifier
           /\ flows[f].url.code_challenge # flows[f].codeVerifier
      /\ ~env.pkce => flows[f].cookie.codeVerifier = None

\* C9 witness: a redirect with a challenge has been issued.
C9_Witness ==
  \E f \in 1..Len(flows) :
    /\ env.pkce /\ flows[f].url.present
    /\ flows[f].url.code_challenge_method = "S256"

----------------------------------------------------------------------------

----------------------------------------------------------------------------

\* The number of calls of an outbound operation a callback has made
RECURSIVE CountCalls(_, _)
CountCalls(calls, name) ==
  IF calls = << >> THEN 0
  ELSE (IF Head(calls) = name THEN 1 ELSE 0) + CountCalls(Tail(calls), name)

\* C11: a callback invocation calls the token endpoint at most once, and an
\* exchange that failed is the last thing the invocation did: the callback is
\* Failed, it holds no tokens, and no call follows the failed exchange.
C11_ExchangeAtMostOnce ==
  \A c \in Callbacks :
    /\ CountCalls(cb[c].calls, "exchangeAuthorizationCode") <= 1
    /\ (Called(cb[c], "exchangeAuthorizationCode")
          /\ cb[c].tokens.accessToken = None) =>
         /\ cb[c].pc = "Failed"
         /\ cb[c].calls[Len(cb[c].calls)] = "exchangeAuthorizationCode"
         /\ cb[c].provision = NoProvision
         /\ ~cb[c].session

\* C11 witness: the token endpoint answered with a failure status, the
\* callback failed and its response has been sent after that single call.
C11_Witness ==
  \E c \in Callbacks :
    /\ CountCalls(cb[c].calls, "exchangeAuthorizationCode") = 1
    /\ ~cb[c].response.ok
    /\ cb[c].pc = "Failed"
    /\ cb[c].responded

----------------------------------------------------------------------------

\* The callback has received this user-info response
UserInfoAnswered(r) == Called(r, "fetchOIDCUserInfo")

\* C12: when the user-info endpoint answers with a non-success status the
\* callback is Failed with the authentication error, accountProvisioner and
\* signIn have not been invoked, no session is set, and the response is a
\* redirect that carries a notice.
C12_UserInfoFailure ==
  \A c \in Callbacks :
    (/\ UserInfoAnswered(cb[c])
     /\ ~cb[c].userInfoResponse.thrown
     /\ ~cb[c].userInfoResponse.ok) =>
      /\ cb[c].pc = "Failed"
      /\ cb[c].err = "AuthenticationError"
      /\ ~Called(cb[c], "accountProvisioner")
      /\ ~Called(cb[c], "signIn")
      /\ cb[c].provision = NoProvision
      /\ ~cb[c].session
      /\ cb[c].redirect.kind = "redirect"
      /\ cb[c].redirect.notice = Notice(ErrorId("AuthenticationError"))
      /\ cb[c].redirect.notice # None

\* C12 witness: a non-success user-info response whose body nevertheless
\* carries an email and a name has failed the callback, which has answered.
C12_Witness ==
  \E c \in Callbacks :
    /\ UserInfoAnswered(cb[c])
    /\ ~cb[c].userInfoResponse.thrown
    /\ ~cb[c].userInfoResponse.ok
    /\ cb[c].userInfoResponse.claims.email # None
    /\ cb[c].userInfoResponse.claims.name # None
    /\ cb[c].pc = "Failed"
    /\ cb[c].responded

----------------------------------------------------------------------------

\* The request of callback r, presenting cookie k instead of its own
WithCookie(r, k) == [r EXCEPT !.cookie = k]

\* C13: when the state verification of a callback fails, its redirect (scheme,
\* host, path, notice) is the one the same request would get for any other
\* cause of failure on the same flow: the flow's cookie forged or tampered
\* with, or presented after its token expired.
C13_SameOutcomeWhateverCause ==
  \A c \in Callbacks :
    (cb[c].err = "OAuthStateMismatchError" /\ cb[c].cookie.present) =>
      \A k \in { p \in PresentableCookies : p.iss = cb[c].cookie.iss },
         expiredNow \in SUBSET (1..Len(flows)) :
        LET other == VerifyStep(WithCookie(cb[c], k), expiredNow)
        IN  other.err = "OAuthStateMismatchError" =>
              other.redirect = cb[c].redirect

----------------------------------------------------------------------------

\* The state verification of callback r was attempted and succeeded
StateVerified(r) == Called(r, "verify") /\ r.err # "OAuthStateMismatchError"

\* C14: the failure redirect of a callback whose state was not verified takes
\* its host and its scheme from the request alone: it is the redirect the same
\* failure would get had the request carried no state cookie at all.
C14_UnverifiedCookieUnused ==
  \A c \in Callbacks :
    (cb[c].pc = "Failed" /\ ~StateVerified(cb[c])) =>
      LET bare == Catch(WithCookie(cb[c], NoCookie), cb[c].err)
      IN  /\ cb[c].redirect.host = bare.redirect.host
          /\ cb[c].redirect.scheme = bare.redirect.scheme

----------------------------------------------------------------------------

\* C15: outside development every failed callback is answered by a redirect
\* that carries a notice, whatever the error and also when the error has no
\* id; the raw error reaches the client only in development.
C15_NoticeUnlessDevelopment ==
  \A c \in Callbacks :
    cb[c].pc = "Failed" =>
      /\ ~env.isDevelopment =>
           /\ cb[c].redirect.kind = "redirect"
           /\ cb[c].redirect.notice # None
      /\ cb[c].redirect.kind = "throw" => env.isDevelopment

----------------------------------------------------------------------------

\* C16: a callback whose token request or user-info request ended in a timeout
\* or a transport failure has the error kind and the notice that a non-success
\* status of the same call gives it.
C16_TransportFailureAsStatusFailure ==
  \A c \in Callbacks :
    /\ (Called(cb[c], "exchangeAuthorizationCode") /\ cb[c].response.thrown) =>
         LET other == ExchangeStep(cb[c], TokenResponse(FALSE, None, None,
                                                        None, None))
         IN  /\ cb[c].err = other.err
             /\ cb[c].redirect.kind = other.redirect.kind
             /\ cb[c].redirect.notice = other.redirect.notice
    /\ (UserInfoAnswered(cb[c]) /\ cb[c].userInfoResponse.thrown) =>
         LET other == ResolveStep(cb[c], UserInfoResponse(FALSE, NoClaims))
         IN  /\ cb[c].err = other.err
             /\ cb[c].redirect.kind = other.redirect.kind
             /\ cb[c].redirect.notice = other.redirect.notice

----------------------------------------------------------------------------

\* The first value of a sequence that is a non-blank string, if any
RECURSIVE FirstNonBlank(_)
FirstNonBlank(values) ==
  IF values = << >> THEN None
  ELSE IF Head(values) # None /\ Trim(Head(values)) # "" THEN Head(values)
  ELSE FirstNonBlank(Tail(values))

\* The resolver of callback r has run
Resolving(r) == r.variant # None

\* The avatar the resolver of callback r arrives at: of the provider's claims
\* in the router without enrichment, of the enrichment profile in the others
ResolvedAvatar(r) ==
  IF r.variant = "fetch"
  THEN FirstNonBlank(<<r.userInfoResponse.claims.picture,
                       r.userInfoResponse.claims.avatar_url,
                       decodeIdToken(r.tokens.idToken).picture>>)
  ELSE r.enrichment.avatar_url

\* C17: in each of the three routers a resolved avatar that is a base64 data
\* URL fails the callback: accountProvisioner is not invoked at all, neither
\* with that avatar nor with a null in its place.
C17_Base64AvatarFails ==
  \A c \in Callbacks :
    /\ cb[c].provision.called => ~isBase64Url(cb[c].provision.avatarUrl)
    /\ (Resolving(cb[c]) /\ isBase64Url(ResolvedAvatar(cb[c]))) =>
         /\ cb[c].pc = "Failed"
         /\ cb[c].provision = NoProvision
         /\ ~Called(cb[c], "accountProvisioner")
         /\ ~cb[c].session

\* C17 witness: the consent router got a profile that lacks nothing but whose
\* avatar is a base64 data URL, and the callback has failed and answered.
C17_Witness ==
  \E c \in Callbacks :
    /\ cb[c].variant = "consent"
    /\ cb[c].enrichment.present
    /\ isBase64Url(cb[c].enrichment.avatar_url)
    /\ ~Falsy(cb[c].enrichment.email)
    /\ ~Falsy(cb[c].enrichment.nickname)
    /\ ~Falsy(cb[c].userInfoResponse.claims.sub)
    /\ cb[c].pc = "Failed"
    /\ cb[c].err = "AuthenticationError"
    /\ cb[c].responded

----------------------------------------------------------------------------

\* No source the resolver of callback r consults has an email
NoEmail(r) ==
  LET profile == r.userInfoResponse.claims
      token == decodeIdToken(r.tokens.idToken)
  IN  CASE r.variant = "fetch" ->
             FirstNonBlank(<<profile.email, token.email>>) = None
        [] r.variant = "email" ->
             Falsy(profile.email) /\ Falsy(token.email)
        [] OTHER ->
             /\ Falsy(r.enrichment.email)
             /\ Falsy(profile.email) /\ Falsy(token.email)

\* No source the resolver of callback r consults has a display name
NoName(r) ==
  LET profile == r.userInfoResponse.claims
      token == decodeIdToken(r.tokens.idToken)
  IN  IF r.variant = "fetch"
      THEN FirstNonBlank(<<Get(profile, UsernameClaim),
                           Get(token, UsernameClaim), profile.name,
                           profile.preferred_username,
                           profile.nickname>>) = None
      ELSE Falsy(r.enrichment.nickname)

\* C18: in each of the three routers accountProvisioner is only called with an
\* email and a name that are not empty, and a callback whose sources hold no
\* email or no name fails without calling accountProvisioner.
C18_EmailAndNameRequired ==
  \A c \in Callbacks :
    /\ cb[c].provision.called =>
         /\ ~Falsy(cb[c].provision.email)
         /\ ~Falsy(cb[c].provision.name)
    /\ (Resolving(cb[c]) /\ (NoEmail(cb[c]) \/ NoName(cb[c]))) =>
         /\ cb[c].pc = "Failed"
         /\ cb[c].provision = NoProvision
         /\ ~Called(cb[c], "accountProvisioner")

\* C18 witness: the email router found a profile whose nickname is the empty
\* string, while user-info gave an email, a name and a subject; the callback
\* has failed and answered.
C18_Witness ==
  \E c \in Callbacks :
    /\ cb[c].variant = "email"
    /\ cb[c].enrichment.present
    /\ cb[c].enrichment.nickname = ""
    /\ ~Falsy(cb[c].userInfoResponse.claims.email)
    /\ ~Falsy(cb[c].userInfoResponse.claims.name)
    /\ ~Falsy(cb[c].userInfoResponse.claims.sub)
    /\ cb[c].pc = "Failed"
    /\ cb[c].responded

----------------------------------------------------------------------------

\* The external subject id the sources of callback r call for: the provider's
\* sub claim, otherwise its id field, otherwise (with enrichment) the id of the
\* enrichment profile
ExpectedSubjectId(r) ==
  LET profile == r.userInfoResponse.claims
      token == decodeIdToken(r.tokens.idToken)
  IN  IF r.variant = "fetch"
      THEN FirstNonBlank(<<profile.sub, token.sub, profile.id>>)
      ELSE FirstNonBlank(<<profile.sub, profile.id, r.enrichment.id>>)

\* C19: in each of the three routers the subject id handed to
\* accountProvisioner is the sub claim, otherwise the id field, otherwise the
\* enrichment profile's id; a callback without any of them fails and does
\* not call accountProvisioner.
C19_SubjectIdPrecedence ==
  \A c \in Callbacks :
    /\ cb[c].provision.called =>
         cb[c].provision.authProviderId = ExpectedSubjectId(cb[c])
    /\ (Resolving(cb[c]) /\ ExpectedSubjectId(cb[c]) = None) =>
         /\ cb[c].pc = "Failed"
         /\ cb[c].provision = NoProvision

----------------------------------------------------------------------------

\* Callback r ran in a router with enrichment, and the enrichment service and
\* the user-info endpoint both returned a display name, not the same one
NamesConflict(r) ==
  /\ r.variant \in {"email", "consent"}
  /\ r.enrichment.present
  /\ ~Falsy(r.enrichment.nickname)
  /\ ~Falsy(r.userInfoResponse.claims.name)
  /\ r.enrichment.nickname # r.userInfoResponse.claims.name

\* C20: with enrichment, when the enrichment service and the user-info
\* endpoint return different display names, the name handed to
\* accountProvisioner is the one of the enrichment service.
C20_EnrichmentNameWins ==
  \A c \in Callbacks :
    (NamesConflict(cb[c]) /\ cb[c].provision.called) =>
      /\ cb[c].provision.name = cb[c].enrichment.nickname
      /\ cb[c].provision.name # cb[c].userInfoResponse.claims.name

\* C20 witness: user-info said "Alice", the profile looked up by email said
\* "Ally", and accountProvisioner has been called.
C20_Witness ==
  \E c \in Callbacks :
    /\ cb[c].variant = "email"
    /\ NamesConflict(cb[c])
    /\ cb[c].userInfoResponse.claims.name = "Alice"
    /\ cb[c].enrichment.nickname = "Ally"
    /\ cb[c].provision.called

----------------------------------------------------------------------------
(* Enrichment-service failures *)

\* The calls a callback has made to the enrichment service
EnrichmentCallNames ==
  {"profileByEmail", "consentRequest", "consentDecision", "consentToken"}

EnrichmentCalls(r) == SelectSeq(r.calls, LAMBDA x : x \in EnrichmentCallNames)

\* Some call of the callback to the enrichment service was answered with a
\* non-success status
EnrichmentHttpFailure(r) ==
  \E i \in 1..Len(r.enrichmentResults) : r.enrichmentResults[i] = "status"

\* C21: in the enrichment variants, when a call to the enrichment service is
\* answered with a non-success status the callback is Failed with the
\* authentication error (the error of a failed user-info call), the failed call
\* is the last call made to the service, and accountProvisioner has not been
\* invoked.
C21_EnrichmentFailure ==
  \A c \in Callbacks :
    (cb[c].variant \in {"email", "consent"} /\ EnrichmentHttpFailure(cb[c])) =>
      /\ cb[c].pc = "Failed"
      /\ cb[c].err = "AuthenticationError"
      /\ cb[c].enrichmentResults[Len(cb[c].enrichmentResults)] = "status"
      /\ Len(EnrichmentCalls(cb[c])) = Len(cb[c].enrichmentResults)
      /\ ~Called(cb[c], "accountProvisioner")
      /\ cb[c].provision = NoProvision

----------------------------------------------------------------------------
(* The provider identifier *)

\* The registrations of the team of the request: none without a team
TeamRegistrations ==
  IF env.team = None THEN {}
  ELSE { env.providers[i] : i \in 1..Len(env.providers) }

\* The mail domain of the identity handed to accountProvisioner
ProvisionedDomain(r) == parseEmail(r.provision.email).domain

\* C22: the providerId handed to accountProvisioner is the one of the
\* registration of (team, mail domain) if there is one, else the one of some
\* registration of the team, else a derived identifier; a derived identifier
\* is used only when the team has no registration.
C22_ProviderIdResolution ==
  \A c \in Callbacks :
    cb[c].provision.called =>
      LET domain == ProvisionedDomain(cb[c])
          providerId == cb[c].provision.providerId
      IN  /\ providerId # None
          /\ domain \in TeamRegistrations => providerId = domain
          /\ (domain \notin TeamRegistrations /\ TeamRegistrations # {}) =>
               providerId \in TeamRegistrations
          /\ TeamRegistrations = {} =>
               providerId = DerivedProviderId(cb[c].variant, domain)
          /\ providerId \notin TeamRegistrations => TeamRegistrations = {}

\* C22 witness: a callback of a team with two registrations, none of them for
\* the user's mail domain, has called accountProvisioner with the first.
C22_Witness ==
  \E c \in Callbacks :
    /\ cb[c].provision.called
    /\ env.team # None
    /\ Len(env.providers) = 2
    /\ ProvisionedDomain(cb[c]) \notin TeamRegistrations
    /\ cb[c].provision.providerId = env.providers[1]


\* The mail domains of the users
EmailDomains == {"example.com", "other.example"}

\* C23: when the team has no registration, the derived providerId handed to
\* accountProvisioner is not the one a callback of the same router derives
\* for an identity of another mail domain.
C23_DerivedIdNotReused ==
  \A c \in Callbacks :
    (cb[c].provision.called /\ TeamRegistrations = {}) =>
      \A other \in EmailDomains \ {ProvisionedDomain(cb[c])} :
        DerivedProviderId(cb[c].variant, other) # cb[c].provision.providerId

----------------------------------------------------------------------------
(* The redirect of a failed provisioning *)

\* The callback failed with a provisioning error that carries a redirect path
\* and a host
FailedWithRedirectingError(r) ==
  /\ r.pc = "Failed"
  /\ r.provision.called
  /\ ErrorId(r.err) = "provisioning_error"
  /\ ErrorRedirectPath(r.err) # None
  /\ ErrorRedirectHost(r.err) # None

\* C24 as stated: when a callback fails with a provisioning error that carries
\* a redirect path and a host, the failure redirect goes to that path and to
\* that host.
C24_ErrorPathAndHostHonoured ==
  \A c \in Callbacks :
    FailedWithRedirectingError(cb[c]) =>
      /\ cb[c].redirect.kind = "redirect"
      /\ cb[c].redirect.path = ErrorRedirectPath(cb[c].err)
      /\ cb[c].redirect.host = ErrorRedirectHost(cb[c].err)

\* C24 amended: when a callback fails with a provisioning error that carries
\* a redirect path, the failure redirect goes to that path rather than to "/";
\* its host is not taken from the error: it is the host of the verified state
\* cookie when cloud-hosted and the host of env.URL otherwise.
C24_ErrorPathHonoured ==
  \A c \in Callbacks :
    FailedWithRedirectingError(cb[c]) =>
      /\ cb[c].redirect.kind = "redirect"
      /\ cb[c].redirect.path = ErrorRedirectPath(cb[c].err)
      /\ cb[c].redirect.path # "/"
      /\ cb[c].redirect.sep = "&"
      /\ cb[c].redirect.host = IF env.isCloudHosted
                               THEN parseState(cb[c].cookie).host
                               ELSE EnvUrlHost
      /\ cb[c].redirect.host # ErrorRedirectHost(cb[c].err)

\* C24 witness: a cloud-hosted callback has failed with such an error and has
\* redirected to the error's path on the host of its state cookie.
C24_Witness ==
  \E c \in Callbacks :
    /\ FailedWithRedirectingError(cb[c])
    /\ env.isCloudHosted
    /\ cb[c].redirect.path = "/welcome?from=oidc"
    /\ cb[c].redirect.host = RequestHost

----------------------------------------------------------------------------
(* The scopes of the authorization redirect *)

\* How often a scope occurs in a list
Occurrences(list, scope) ==
  Cardinality({ i \in 1..Len(list) : list[i] = scope })

\* The scopes that are configured: the non-empty entries, trimmed
ConfiguredScopes ==
  { Trim(env.scopes[i]) : i \in 1..Len(env.scopes) } \ {""}

\* C25 as stated: the scope list of the authorization redirect holds openid,
\* holds every configured scope exactly once, holds no empty entry, and its
\* first element is openid.
C25_ScopesOpenidFirst ==
  \A f \in 1..Len(flows) :
    flows[f].url.present =>
      LET scope == flows[f].url.scope
      IN  /\ Occurrences(scope, "openid") = 1
          /\ \A x \in ConfiguredScopes : Occurrences(scope, x) = 1
          /\ Occurrences(scope, "") = 0
          /\ scope[1] = "openid"

\* C25 amended: the scope list of the authorization redirect holds openid,
\* holds every configured scope exactly once and nothing else, and holds no
\* empty entry; openid is its first element when the configured scopes do not
\* hold openid, and otherwise stands where it is first configured.
C25_ScopesDeduplicated ==
  \A f \in 1..Len(flows) :
    flows[f].url.present =>
      LET scope == flows[f].url.scope
      IN  /\ Occurrences(scope, "openid") = 1
          /\ \A x \in ConfiguredScopes : Occurrences(scope, x) = 1
          /\ Occurrences(scope, "") = 0
          /\ \A i \in 1..Len(scope) :
               scope[i] \in ConfiguredScopes \cup {"openid"}
          /\ "openid" \notin ConfiguredScopes => scope[1] = "openid"
          /\ "openid" \in ConfiguredScopes =>
               scope = dedupeScopes(TrimAll(env.scopes))

\* C25 witness: a redirect was sent with openid put first in front of a list
\* that was configured without it, with an empty entry and a duplicate.
C25_Witness ==
  \E f \in 1..Len(flows) :
    /\ flows[f].url.present
    /\ env.scopes = <<"email", "", "email\t">>
    /\ flows[f].url.scope = <<"openid", "email">>

----------------------------------------------------------------------------
(* The language handed to accountProvisioner *)

\* C26: in every router, the language handed to accountProvisioner is absent
\* or a supported locale, and a callback whose identity is complete does not
\* fail, whatever locale it was given.
C26_LanguageSupportedOrAbsent ==
  \A c \in Callbacks :
    /\ cb[c].provision.called =>
         cb[c].provision.language \in languages \cup {None}
    /\ (cb[c].variant # None /\ cb[c].identity.email = "a@example.com"
          /\ cb[c].identity.name \in {"alice", "Ally"}) =>
         cb[c].pc # "Failed"

----------------------------------------------------------------------------
(* The display name *)

\* The fields the display name is looked for in, in order: the configured
\* claim of user-info and of the id token, then the conventional fields
NameCandidates(r) ==
  LET userInfo == r.userInfoResponse.claims
      idTokenClaims == decodeIdToken(r.tokens.idToken)
      claim == IF env.usernameClaim = "" THEN "preferred_username"
               ELSE env.usernameClaim
  IN  << IF claim = "handle" THEN None ELSE Get(userInfo, claim),
         IF claim = "handle" THEN None ELSE Get(idTokenClaims, claim),
         userInfo.name, userInfo.preferred_username, userInfo.nickname >>

\* C27: the display name is the first of the configured claim and the
\* conventional fallback fields, in their fixed order, that holds a string
\* which is not empty or blank; the callback fails for its name only when all
\* of them are empty.
C27_DisplayNameOrder ==
  \A c \in Callbacks :
    (cb[c].variant = "fetch" /\ cb[c].userInfoResponse.ok
       /\ cb[c].userInfoResponse.claims.email = "a@example.com"
       /\ cb[c].userInfoResponse.claims.picture = None
       /\ cb[c].userInfoResponse.claims.avatar_url = None) =>
      /\ FirstNonBlank(NameCandidates(cb[c])) # None =>
           /\ cb[c].pc # "Failed" \/ cb[c].provision.called
           /\ cb[c].identity.name = FirstNonBlank(NameCandidates(cb[c]))
      /\ FirstNonBlank(NameCandidates(cb[c])) = None =>
           /\ cb[c].pc = "Failed"
           /\ cb[c].err = "AuthenticationError"
           /\ ~cb[c].provision.called

\* C27 witness: with OIDC_USERNAME_CLAIM=nickname, a user-info answer whose
\* nickname is blank and an id token with nickname "tokky", the callback was
\* provisioned under the name of the id token, not under the `name` and
\* `preferred_username` that user-info did give.
C27_Witness ==
  \E c \in Callbacks :
    /\ env.usernameClaim = "nickname"
    /\ cb[c].provision.called
    /\ cb[c].userInfoResponse.claims.nickname = " "
    /\ cb[c].userInfoResponse.claims.name = "Alice"
    /\ cb[c].userInfoResponse.claims.preferred_username = "alice"
    /\ cb[c].provision.name = "tokky"

----------------------------------------------------------------------------
(* Missing provider settings *)

\* C28: with an endpoint URL or the client credentials missing the routes are
\* not mounted, and no callback invocation verifies state or sends a request
\* to the token endpoint.
C28_MissingSettingsFailFast ==
  \A c \in Callbacks :
    (~env.endpointsConfigured \/ ~env.credentialsConfigured) =>
      /\ ~Called(cb[c], "verify")
      /\ ~cb[c].body.sent

----------------------------------------------------------------------------
(* The log *)

\* The records callback r wrote at error level
ErrorRecords(r) == SelectSeq(r.log, LAMBDA x : x.level = "error")

\* C29: a failed callback has written exactly one failure record to the log,
\* none is written twice and none is missing; a callback that has not failed
\* has written none.
C29_FailureLoggedOnce ==
  \A c \in Callbacks :
    /\ cb[c].pc = "Failed" => Len(ErrorRecords(cb[c])) = 1
    /\ cb[c].pc # "Failed" => Len(ErrorRecords(cb[c])) = 0

\* The client secret of the deployment
ClientSecret == "s3cret"

\* The credentials and tokens of callback r: what the token endpoint answered,
\* the client secret and the PKCE verifier of its flow
Secrets(r) ==
  {r.response.access_token, r.response.refresh_token, r.response.id_token,
   r.tokens.accessToken, r.tokens.refreshToken, r.tokens.idToken,
   ClientSecret, r.body.code_verifier,
   IF r.cookie.present THEN parseState(r.cookie).codeVerifier ELSE None}
    \ {None}

\* C30: no record written to the log during initiation or during a callback
\* holds a credential or a token, whatever is attached to it.
C30_NoSecretLogged ==
  /\ \A c \in Callbacks :
       \A i \in 1..Len(cb[c].log) :
         cb[c].log[i].attached \cap Secrets(cb[c]) = {}
  /\ \A f \in 1..Len(flows) :
       \A i \in 1..Len(flows[f].log) :
         flows[f].log[i].attached
           \cap {ClientSecret, flows[f].codeVerifier, flows[f].token} = {}

----------------------------------------------------------------------------
(* Cancellation *)

\* C31: no session is issued for a callback whose inbound connection was
\* dropped before the session step: a callback with a session still has its
\* connection.
C31_NoSessionAfterDisconnect ==
  \A c \in Callbacks :
    ~cb[c].connected =>
      /\ ~cb[c].session
      /\ ~Called(cb[c], "signIn")

----------------------------------------------------------------------------
(* Callbacks that overlap *)

\* The token endpoint's answers to two callbacks: with and without a granted
\* scope
ConcurrentTokenResponses ==
  { TokenResponse(TRUE, "t1", "rt1", "jwt1", None),
    TokenResponse(TRUE, "t1", None, None, "openid email") }

\* Two callback invocations of one router, overlapping in any order, each
\* with its own token response and its own provisioning outcome
NextConcurrent ==
  \/ \E client \in Clients : Initiate(client)
  \/ \E c \in Callbacks, state \in IssuedTokens, error \in Errors,
        cookie \in { k \in IssuedCookies : k.present } :
       Receive(c, "abc123", state, error, cookie)
  \/ \E c \in Callbacks : VerifyState(c)
  \/ \E c \in Callbacks, response \in ConcurrentTokenResponses :
       ExchangeToken(c, response)
  \/ \E c \in Callbacks :
       ResolveClaims(c, UserInfoResponse(TRUE,
                          Claims("a@example.com", "Alice", None, "sub1", None)))
  \/ \E c \in Callbacks, outcome \in {None, "ProvisioningError"} :
       Provision(c, outcome)
  \/ \E c \in Callbacks : SignIn(c)
  \/ \E c \in Callbacks : Respond(c)

SpecConcurrent == InitTwo /\ [][NextConcurrent]_vars

\* The invocation r as it ends when it is the only one the router serves:
\* the steps of handleCallback on r's request and on the answers r was given,
\* with the scope list as createOIDCRouter built it
RunAlone(r) ==
  LET received == [IdleCb EXCEPT !.pc = "CallbackReceived", !.code = r.code,
                                 !.state = r.state, !.error = r.error,
                                 !.cookie = r.cookie, !.fromJar = r.fromJar,
                                 !.after = r.after]
      verified == VerifyStep(received, {})
      exchanged == IF verified.pc = "StateVerified"
                   THEN ExchangeStep(verified, r.response) ELSE verified
      resolved == IF exchanged.pc = "TokenExchanged"
                  THEN ResolveStep(exchanged, r.userInfoResponse)
                  ELSE exchanged
      outcome == IF r.provision.called /\ r.pc = "Failed" THEN r.err ELSE None
      provisioned ==
        IF resolved.pc = "ClaimsResolved"
        THEN [ProvisionStep(resolved, outcome)
                EXCEPT !.provision.scopes =
                         TokenScopes(resolved.tokens.scope,
                                     RouterScopes(env.scopes))]
        ELSE resolved
  IN  IF provisioned.pc = "Provisioned" THEN SignInStep(provisioned)
      ELSE provisioned

\* C32: whatever the interleaving of two callbacks, each one ends as it would
\* have ended alone: the same terminal state, error and redirect, the same
\* calls, and the same arguments to accountProvisioner, scope list included;
\* and the router's scope list is never changed by a callback.
C32_CallbacksIndependent ==
  /\ scopes = RouterScopes(env.scopes)
  /\ CardsAtRest
  /\ BoardsAtRest
  /\ \A c \in Callbacks :
       cb[c].pc \in {"Failed", "SessionEstablished"} =>
         [cb[c] EXCEPT !.responded = FALSE, !.connected = TRUE]
           = RunAlone(cb[c])

\* Two overlapping callbacks both provisioned, one with the scopes the token
\* endpoint granted and one with the router's
C32_Witness ==
  /\ cb[1].pc = "SessionEstablished"
  /\ cb[2].pc = "SessionEstablished"
  /\ 1 \notin cb[2].after
  /\ ~cb[1].responded
  /\ cb[1].provision.scopes = <<"openid", "email">>
  /\ cb[2].provision.scopes = <<"openid", "profile", "email">>

----------------------------------------------------------------------------
(* The client variant of the session *)

\* One callback from a client of either variant, for a flow initiated as
\* either variant, with every cookie a client can present
NextClients ==
  \/ \E client \in Clients : Initiate(client)
  \/ \E c \in One, state \in IssuedTokens \cup {None},
        cookie \in PresentableCookies, requestClient \in Clients :
       ReceiveFrom(c, "abc123", state, None, cookie, requestClient)
  \/ \E c \in One : VerifyState(c)
  \/ \E c \in One :
       ExchangeToken(c, TokenResponse(TRUE, "t1", "rt1", "jwt1", None))
  \/ \E c \in One :
       ResolveClaims(c, UserInfoResponse(TRUE,
                          Claims("a@example.com", "Alice", None, "sub1", None)))
  \/ \E c \in One : Provision(c, None)
  \/ \E c \in One : SignIn(c)
  \/ \E c \in One : Respond(c)

SpecClients == Init /\ [][NextClients]_vars

\* C33: the session of a successful callback is established for Desktop when
\* the flow of its state token was initiated as Desktop, and for the variant
\* the request tells when the flow was initiated as Web.
C33_SessionClientFromState ==
  \A c \in Callbacks :
    cb[c].pc = "SessionEstablished" =>
      /\ FlowsOf(cb[c]) # {}
      /\ \A f \in FlowsOf(cb[c]) :
           cb[c].client = IF flows[f].client = Desktop THEN Desktop
                          ELSE cb[c].requestClient

\* A flow initiated as Desktop is completed as Desktop by a request that
\* tells Web
C33_Witness ==
  \E c \in Callbacks :
    /\ cb[c].pc = "SessionEstablished"
    /\ cb[c].requestClient = Web
    /\ cb[c].client = Desktop
    /\ \E f \in FlowsOf(cb[c]) : flows[f].client = Desktop

----------------------------------------------------------------------------
(* The initiation route *)

\* C34: a step that serves an initiation either stores the state and
\* redirects, with the stored token as the `state` parameter of the redirect
\* and the stored cookie handed to the client, or, when storing fails, issues
\* no redirect and no cookie; it changes nothing else: not the router's
\* configuration or scope list, not the expiry of earlier states, not any
\* callback invocation.
C34_InitiationStoresThenRedirects ==
  [][ Len(flows') = Len(flows) + 1 =>
        LET f == flows'[Len(flows')]
        IN  /\ SubSeq(flows', 1, Len(flows)) = flows
            /\ f.url.present =>
                 /\ f.cookie.present
                 /\ f.token # None
                 /\ f.cookie.token = f.token
                 /\ f.url.state = f.token
                 /\ jar' = f.cookie
            /\ ~f.cookie.present =>
                 /\ ~f.url.present
                 /\ jar' = jar
            /\ UNCHANGED <<env, scopes, expired, cb, cardVars, boardVars>> ]_vars

\* One initiation has stored its state and redirected with it, another has
\* failed to store and has not redirected
C34_Witness ==
  /\ \E f \in 1..Len(flows) :
       /\ flows[f].url.present
       /\ flows[f].cookie.present
       /\ flows[f].url.state = flows[f].cookie.token
  /\ \E f \in 1..Len(flows) :
       /\ ~flows[f].cookie.present
       /\ ~flows[f].url.present

----------------------------------------------------------------------------
(* A callback that goes well *)

\* User-info answers that carry an email and a name: with and without a
\* username, a subject, a picture, a domain in the email
ScenarioUserInfoResponses ==
  { UserInfoResponse(TRUE, Claims("a@example.com", "Alice", u, s, p)) :
      u \in {None, "alice"}, s \in {None, "sub1"},
      p \in {None, "https://cdn.example/a.png", "data:image/png;base64,AAAA"} }
  \cup { UserInfoResponse(TRUE, Claims("alice", "Alice", None, "sub1", None)),
         UserInfoResponse(TRUE, Claims("a@example.com", None, None, "sub1",
                                       None)),
         UserInfoResponse(FALSE, Claims("a@example.com", "Alice", None, "sub1",
                                        None)) }

\* A self-hosted production deployment of the router without enrichment,
\* with the username claim left at its default or set to `name`
InitScenario ==
  /\ InitNames
  /\ env.usernameClaim \in {"", "name"}

\* One callback invocation with the code 'abc123', against token responses
\* with and without an access token and every user-info answer above
NextScenario ==
  \/ \E client \in Clients : Initiate(client)
  \/ \E c \in One, state \in IssuedTokens \cup {None},
        cookie \in { k \in IssuedCookies : k.present } :
       Receive(c, "abc123", state, None, cookie)
  \/ \E c \in One : VerifyState(c)
  \/ \E c \in One, accessToken \in {None, "t1"},
        idToken \in {None, "jwt1", "jwt3"} :
       ExchangeToken(c, TokenResponse(TRUE, accessToken, None, idToken, None))
  \/ \E c \in One, userInfoResponse \in ScenarioUserInfoResponses :
       ResolveClaims(c, userInfoResponse)
  \/ \E c \in One, outcome \in {None, "ProvisioningError"} :
       Provision(c, outcome)
  \/ \E c \in One : SignIn(c)
  \/ \E c \in One : Respond(c)

SpecScenario == InitScenario /\ [][NextScenario]_vars

\* The invocation r has ended; its state verified and its token exchange
\* returned an access token (user-info was asked for), user-info answered
\* with an email and a name, and provisioning did not fail
ScenarioA(r) ==
  /\ r.pc \in {"Failed", "SessionEstablished"}
  /\ Called(r, "fetchOIDCUserInfo")
  /\ r.tokens.accessToken # None
  /\ r.userInfoResponse.ok
  /\ parseString(r.userInfoResponse.claims.email) # None
  /\ parseString(r.userInfoResponse.claims.name) # None
  /\ ~(r.provision.called /\ r.pc = "Failed")

\* The `sub` claim: of user-info, else of the id token
SubClaim(r) ==
  Coalesce(parseString(r.userInfoResponse.claims.sub),
           parseString(decodeIdToken(r.tokens.idToken).sub))

ScenarioWellFormed(r) ==
  /\ parseEmail(r.userInfoResponse.claims.email).domain # None
  /\ \A picture \in { r.userInfoResponse.claims.picture,
                      r.userInfoResponse.claims.avatar_url,
                      decodeIdToken(r.tokens.idToken).picture } :
       picture = None \/ ~isBase64Url(picture)

\* The value of the configured username claim: of user-info, else of the id
\* token
ConfiguredUsername(r) ==
  LET claim == IF env.usernameClaim = "" THEN "preferred_username"
               ELSE env.usernameClaim
  IN  Coalesce(parseString(Get(r.userInfoResponse.claims, claim)),
               parseString(Get(decodeIdToken(r.tokens.idToken), claim)))

----------------------------------------------------------------------------
(* The parameters of the callback *)

\* The `code` and `error` parameters of a request: absent, empty or set
ParamCodes == {None, "", "abc123"}
ParamErrors == {None, "", "access_denied"}

\* One callback invocation with any `code` and `error`, and the state and
\* cookie of an initiation or none
NextParams ==
  \/ \E client \in Clients : Initiate(client)
  \/ \E c \in One, code \in ParamCodes, state \in IssuedTokens \cup {None},
        error \in ParamErrors,
        cookie \in {NoCookie} \cup { k \in IssuedCookies : k.present } :
       Receive(c, code, state, error, cookie)
  \/ \E c \in One : VerifyState(c)
  \/ \E c \in One :
       ExchangeToken(c, TokenResponse(TRUE, "t1", "rt1", "jwt1", None))
  \/ \E c \in One :
       ResolveClaims(c, UserInfoResponse(TRUE,
                          Claims("a@example.com", "Alice", None, "sub1", None)))
  \/ \E c \in One : Provision(c, None)
  \/ \E c \in One : SignIn(c)
  \/ \E c \in One : Respond(c)

SpecParams == Init /\ [][NextParams]_vars

\* The request of r names an error, or names no code
ErrorOrNoCode(r) ==
  \/ r.error \notin {None, ""}
  \/ r.code \in {None, ""}

\* C36: a callback whose request names an error or no code has, once it is
\* past its first step, failed without a single call: stateStore.verify, the
\* token exchange, the user-info fetch, accountProvisioner and signIn were
\* not invoked, and its state cookie is left as it was.
C36_FailsBeforeVerification ==
  \A c \in Callbacks :
    cb[c].pc \notin {"idle", "CallbackReceived"} /\ ErrorOrNoCode(cb[c]) =>
      /\ cb[c].pc = "Failed"
      /\ cb[c].err = "AuthenticationError"
      /\ cb[c].calls = << >>
      /\ ~cb[c].clearCookie

\* A callback with a valid state and cookie and an error parameter has
\* failed, and one with a valid state and cookie and no code
C36_Witness ==
  \E c \in Callbacks :
    /\ cb[c].pc = "Failed"
    /\ cb[c].calls = << >>
    /\ cb[c].cookie.present
    /\ cb[c].state = cb[c].cookie.token
    /\ \/ cb[c].error = "access_denied" /\ cb[c].code = "abc123"
       \/ cb[c].error = None /\ cb[c].code = None

----------------------------------------------------------------------------
(* BoardCardsStore: move and updateCard, optimistic, against the server *)

\* The calls of move and updateCard the model follows
MaxCalls == 2

\* The fields updateCard can set and the ones it saves for rollback
UpdateFields ==
  {"title", "description", "tags", "assigneeIds", "metadata", "dueOffsetDays"}
SavedFields == UpdateFields \cup {"updatedAt"}

\* The fields the boardCards.update route writes
ServerUpdateFields == {"title", "description", "tags", "metadata"}

\* `params` of updateCard: a field is undefined or holds a value
NoParams == [f \in UpdateFields |-> None]
UpdateParams ==
  { [NoParams EXCEPT !.title = "T1"],
    [NoParams EXCEPT !.description = "D1"],
    [NoParams EXCEPT !.title = "T2", !.tags = "g2"] }

\* Where move puts the card: the column, and the index fractionalIndex gives
\* between the neighbours named by beforeId and afterId
MoveTargets ==
  { [columnId |-> "doing", index |-> "a1"],
    [columnId |-> "done", index |-> "a2"] }

\* A call: what it was asked, what it saved, how far it is ("sent": the
\* request is on its way; "answered": the server has handled it and `res` is
\* on its way back; "rejected": the request has failed and the error is on
\* its way back; "done" and "failed": the call has returned or thrown)
Call(op, params, target, previous) ==
  [op |-> op, params |-> params, target |-> target, previous |-> previous,
   pc |-> "sent", res |-> InitialCard]

\* `previousState` of updateCard
previousState(c) == [f \in SavedFields |-> c[f]]

\* The optimistic update of updateCard: the fields given, and updatedAt
OptimisticUpdate(c, params, date) ==
  [f \in DOMAIN c |->
     IF f \in UpdateFields
     THEN (IF params[f] # None THEN params[f] ELSE c[f])
     ELSE IF f = "updatedAt" THEN date ELSE c[f]]

\* The optimistic update of move
OptimisticMove(c, target, date) ==
  [c EXCEPT !.columnId = target.columnId, !.index = target.index,
            !.updatedAt = date]

\* The catch block of updateCard: every saved field is put back
RollbackUpdate(c, params, previous) ==
  [f \in DOMAIN c |-> IF f \in SavedFields THEN previous[f] ELSE c[f]]

\* Store.add of the data of a response: the card the store holds takes it
StoreAdd(c, data) == data

\* After the await: the response is dropped when the card the store holds is
\* newer than it, and added otherwise
ApplyResponse(c, data) ==
  IF c.updatedAt > data.updatedAt THEN c ELSE StoreAdd(c, data)

\* The boardCards.update route: the fields it reads, and the save
ServerUpdate(c, params, date) ==
  [f \in DOMAIN c |->
     IF f \in ServerUpdateFields
     THEN (IF params[f] # None THEN params[f] ELSE c[f])
     ELSE IF f = "updatedAt" THEN date ELSE c[f]]

\* The boardCards.move route
ServerMove(c, target, date) ==
  [c EXCEPT !.columnId = target.columnId, !.index = target.index,
            !.updatedAt = date]

\* updateCard up to its await
StartUpdate(params) ==
  /\ Len(cardCalls) < MaxCalls
  /\ cardCalls' = Append(cardCalls,
                    Call("update", params, [columnId |-> None, index |-> None],
                         previousState(card)))
  /\ card' = OptimisticUpdate(card, params, now)
  /\ now' = now + 1
  /\ UNCHANGED <<server, oidcVars, boardVars>>

\* move up to its await
StartMove(target) ==
  /\ Len(cardCalls) < MaxCalls
  /\ cardCalls' = Append(cardCalls,
                    Call("move", NoParams, target, previousState(card)))
  /\ card' = OptimisticMove(card, target, now)
  /\ now' = now + 1
  /\ UNCHANGED <<server, oidcVars, boardVars>>

\* The server handles the request of call i and answers with its card
ServerHandles(i) ==
  /\ i \in 1..Len(cardCalls)
  /\ cardCalls[i].pc = "sent"
  /\ server' = IF cardCalls[i].op = "update"
               THEN ServerUpdate(server, cardCalls[i].params, now)
               ELSE ServerMove(server, cardCalls[i].target, now)
  /\ cardCalls' = [cardCalls EXCEPT ![i].pc = "answered", ![i].res = server']
  /\ now' = now + 1
  /\ UNCHANGED <<card, oidcVars, boardVars>>

\* The request of call i fails: the server refuses it or it never arrives
ServerRejects(i) ==
  /\ i \in 1..Len(cardCalls)
  /\ cardCalls[i].pc = "sent"
  /\ cardCalls' = [cardCalls EXCEPT ![i].pc = "rejected"]
  /\ UNCHANGED <<card, server, now, oidcVars, boardVars>>

\* The await of call i returns the response
Resolves(i) ==
  /\ i \in 1..Len(cardCalls)
  /\ cardCalls[i].pc = "answered"
  /\ card' = ApplyResponse(card, cardCalls[i].res)
  /\ cardCalls' = [cardCalls EXCEPT ![i].pc = "done"]
  /\ UNCHANGED <<server, now, oidcVars, boardVars>>

\* The await of call i throws: updateCard rolls back, move leaves the card
Rejects(i) ==
  /\ i \in 1..Len(cardCalls)
  /\ cardCalls[i].pc = "rejected"
  /\ card' = IF cardCalls[i].op = "update"
             THEN RollbackUpdate(card, cardCalls[i].params,
                                 cardCalls[i].previous)
             ELSE card
  /\ cardCalls' = [cardCalls EXCEPT ![i].pc = "failed"]
  /\ UNCHANGED <<server, now, oidcVars, boardVars>>

\* The OIDC router idle, the store with its card
InitCards ==
  /\ Init
  /\ env = Deployment(TRUE, TRUE, FALSE)

NextAnswers ==
  \/ \E i \in 1..MaxCalls : ServerHandles(i)
  \/ \E i \in 1..MaxCalls : ServerRejects(i)
  \/ \E i \in 1..MaxCalls : Resolves(i)
  \/ \E i \in 1..MaxCalls : Rejects(i)

\* Calls of updateCard on the card, overlapping in any way
NextUpdates ==
  \/ \E params \in UpdateParams : StartUpdate(params)
  \/ NextAnswers

SpecUpdates == InitCards /\ [][NextUpdates]_vars

\* Calls of move on the card, overlapping in any way
NextMoves ==
  \/ \E target \in MoveTargets : StartMove(target)
  \/ NextAnswers

SpecMoves == InitCards /\ [][NextMoves]_vars

\* C37: when a call of updateCard throws, every saved field that no later
\* call of updateCard still standing has set is back at its value from
\* before the call, and a field that such a call has set keeps the value it
\* has: the rollback does not discard the other call's values.
C37_RollbackRestoresOwnCall ==
  [][ \A i \in 1..Len(cardCalls) :
        (cardCalls[i].op = "update" /\ cardCalls[i].pc = "rejected"
           /\ cardCalls'[i].pc = "failed") =>
          \A f \in UpdateFields :
            IF \E j \in (i + 1)..Len(cardCalls) :
                 /\ cardCalls[j].pc \in {"sent", "answered", "done"}
                 /\ cardCalls[j].params[f] # None
            THEN card'[f] = card[f]
            ELSE card'[f] = cardCalls[i].previous[f] ]_vars

\* C38: the card is in the column and at the index of the move started last,
\* whichever responses of earlier moves have arrived since.
C38_LatestMoveWins ==
  Len(cardCalls) > 0 /\ cardCalls[Len(cardCalls)].op = "move" =>
    /\ card.columnId = cardCalls[Len(cardCalls)].target.columnId
    /\ card.index = cardCalls[Len(cardCalls)].target.index

----------------------------------------------------------------------------
(* boards.enable, each request in its own transaction *)

\* The boards.enable requests the model follows
MaxRequests == 3

Documents == {"d1", "d2"}

\* DEFAULT_COLUMNS
DEFAULT_COLUMNS == <<"To Do", "Doing", "Done">>

\* What a request has written in its transaction and not yet committed
NoWrites == [board |-> None, columns |-> << >>, events |-> << >>]

\* A boards.enable request: its document, how far its handler is ("started",
\* "creating", "created", "columns" and "emitted" inside the transaction;
\* "done" once committed and answered, "failed" once rolled back), the board
\* its findOne gave, its uncommitted rows, and the board its body presents
Request(documentId) ==
  [documentId |-> documentId, pc |-> "started", existing |-> None,
   written |-> NoWrites, body |-> None]

\* The rows of boards that are not deleted, as a paranoid model reads them
NotDeleted(rows) == { i \in 1..Len(rows) : ~rows[i].deleted }

\* `Board.findOne({where: {documentId, teamId}})`: a row that is not deleted
\* of the document, none when there is none
BoardFindOne(rows, documentId) ==
  LET found == { i \in NotDeleted(rows) : rows[i].documentId = documentId }
  IN  IF found = {} THEN None
      ELSE rows[CHOOSE i \in found : \A j \in found : i <= j].id

\* As UniqueDocumentId, an index that is not unique
NotUniqueDocumentId(rows, documentId) == FALSE

\* The unique index of boards on documentId where deletedAt is null: a row
\* for the document is refused when a row that is not deleted has it
UniqueDocumentId(rows, documentId) ==
  \E i \in NotDeleted(rows) : rows[i].documentId = documentId

\* The requests whose transaction holds an uncommitted board of the document
Inserting(documentId) ==
  { j \in 1..Len(reqs) : /\ reqs[j].documentId = documentId
                         /\ reqs[j].pc \in {"created", "columns", "emitted"} }

\* POST boards.enable arrives and its transaction begins
Enable(documentId) ==
  /\ Len(reqs) < MaxRequests
  /\ reqs' = Append(reqs, Request(documentId))
  /\ UNCHANGED <<boards, oidcVars, cardVars>>

\* `const existing = await Board.findOne(...)`: an existing board is
\* presented and the handler returns
FindExisting(i) ==
  /\ i \in 1..Len(reqs)
  /\ reqs[i].pc = "started"
  /\ LET existing == BoardFindOne(boards.boards, reqs[i].documentId)
     IN  reqs' = [reqs EXCEPT ![i].existing = existing,
                              ![i].body = existing,
                              ![i].pc = IF existing # None THEN "done"
                                        ELSE "creating"]
  /\ UNCHANGED <<boards, oidcVars, cardVars>>

\* createBoardWithDefaults: Board.createWithCtx. The insert waits for a
\* transaction that holds an uncommitted board of the document, and fails,
\* rolling the transaction back, when the unique index refuses the row
CreateBoard(i) ==
  /\ i \in 1..Len(reqs)
  /\ reqs[i].pc = "creating"
  /\ Inserting(reqs[i].documentId) = {}
  /\ reqs' = IF UniqueDocumentId(boards.boards, reqs[i].documentId)
             THEN [reqs EXCEPT ![i].pc = "failed"]
             ELSE [reqs EXCEPT ![i].pc = "created",
                               ![i].written.board = "b" \o ToString(i)]
  /\ UNCHANGED <<boards, oidcVars, cardVars>>

\* createBoardWithDefaults: the loop over DEFAULT_COLUMNS
CreateColumns(i) ==
  /\ i \in 1..Len(reqs)
  /\ reqs[i].pc = "created"
  /\ reqs' = [reqs EXCEPT
                ![i].pc = "columns",
                ![i].written.columns =
                  [k \in 1..Len(DEFAULT_COLUMNS) |->
                     [boardId |-> reqs[i].written.board,
                      documentId |-> reqs[i].documentId,
                      title |-> DEFAULT_COLUMNS[k]]]]
  /\ UNCHANGED <<boards, oidcVars, cardVars>>

\* `await emitBoardChange(ctx, document.id, {board})`
EmitBoardChange(i) ==
  /\ i \in 1..Len(reqs)
  /\ reqs[i].pc = "columns"
  /\ reqs' = [reqs EXCEPT
                ![i].pc = "emitted",
                ![i].written.events =
                  <<[name |-> "boards.change",
                     documentId |-> reqs[i].documentId]>>]
  /\ UNCHANGED <<boards, oidcVars, cardVars>>

\* The handler returns the created board and the transaction commits
Commit(i) ==
  /\ i \in 1..Len(reqs)
  /\ reqs[i].pc = "emitted"
  /\ boards' = [boards |-> Append(boards.boards,
                                   [id |-> reqs[i].written.board,
                                    documentId |-> reqs[i].documentId,
                                    deleted |-> FALSE]),
                 columns |-> boards.columns \o reqs[i].written.columns,
                 events |-> boards.events \o reqs[i].written.events]
  /\ reqs' = [reqs EXCEPT ![i].pc = "done", ![i].body = reqs[i].written.board]
  /\ UNCHANGED <<oidcVars, cardVars>>

\* The tables before the requests: empty, or with a deleted board of d1
InitBoards ==
  /\ env = Deployment(TRUE, TRUE, FALSE)
  /\ rand = 0
  /\ scopes = RouterScopes(env.scopes)
  /\ flows = << >>
  /\ expired = {}
  /\ jar = NoCookie
  /\ cb = [c \in Callbacks |-> IdleCb]
  /\ CardsAtRest
  /\ boards \in { NoRows,
                  [NoRows EXCEPT !.boards =
                     <<[id |-> "b0", documentId |-> "d1",
                        deleted |-> TRUE]>>] }
  /\ reqs = << >>

\* boards.enable requests for the documents, overlapping in any way
NextBoards ==
  \/ \E documentId \in Documents : Enable(documentId)
  \/ \E i \in 1..MaxRequests : FindExisting(i)
  \/ \E i \in 1..MaxRequests : CreateBoard(i)
  \/ \E i \in 1..MaxRequests : CreateColumns(i)
  \/ \E i \in 1..MaxRequests : EmitBoardChange(i)
  \/ \E i \in 1..MaxRequests : Commit(i)

SpecBoards == InitBoards /\ [][NextBoards]_vars

\* The boards of a document that are not deleted
BoardsOf(documentId) ==
  { i \in NotDeleted(boards.boards) :
      boards.boards[i].documentId = documentId }

\* C39: whatever boards.enable requests were made, one after the other or at
\* once, a document has at most one board that is not deleted, with the
\* default columns once and one boards.change event; and a request whose
\* findOne gave a board presents that board and has written nothing: no
\* board, no column, no event.
C39_EnableIdempotent ==
  /\ \A d \in Documents :
       /\ Cardinality(BoardsOf(d)) <= 1
       /\ Cardinality({ k \in 1..Len(boards.columns) :
                          boards.columns[k].documentId = d })
            = Len(DEFAULT_COLUMNS) * Cardinality({ i \in BoardsOf(d) :
                                         boards.boards[i].id # "b0" })
       /\ Cardinality({ k \in 1..Len(boards.events) :
                          boards.events[k].documentId = d })
            = Cardinality({ i \in BoardsOf(d) : boards.boards[i].id # "b0" })
  /\ \A i \in 1..Len(reqs) :
       reqs[i].existing # None =>
         /\ reqs[i].pc = "done"
         /\ reqs[i].body = reqs[i].existing
         /\ reqs[i].written = NoWrites

\* Three requests for one document: one has created the board, one that
\* ran at the same time was refused by the index, one found the board
C39_Witness ==
  \E i, j, k \in 1..Len(reqs) :
    /\ reqs[i].documentId = reqs[j].documentId
    /\ reqs[j].documentId = reqs[k].documentId
    /\ reqs[i].pc = "done" /\ reqs[i].written.board # None
    /\ reqs[j].pc = "failed"
    /\ reqs[k].pc = "done" /\ reqs[k].existing = reqs[i].written.board

====
